---------------------------- MODULE Spec2Model ----------------------------
(***************************************************************************)
(* bizclaw-brain: the online-softmax attention kernel (attention.rs) and   *)
(* the half-precision codec of the KV cache (kv_cache.rs).                 *)
(*                                                                         *)
(* Number system of the attention kernel.  The code computes in binary32.  *)
(* The model keeps what binary32 arithmetic does that the properties       *)
(* depend on, at a reduced width: every value is a multiple of 1/ONE       *)
(* (FracBits fractional bits), every multiplication and division rounds    *)
(* its exact result to the nearest representable value (ties to even),     *)
(* a result above MaxFinite in magnitude overflows to an infinity, and     *)
(* NaN arises and propagates as in IEEE-754 (inf - inf, 0 * inf, 0 / 0).   *)
(* A finite value x is the integer x * ONE; PInf, NInf and NaN are the     *)
(* three integers just outside the finite range.                           *)
(*                                                                         *)
(* exp is the exponential of base 4 on the grid of multiples of 1/2, the   *)
(* grid every score of the inputs used here lies on (integer inputs,       *)
(* head_dim 1 or 4, so scale is 1 or 1/2): exp(0) = 1, exp(x + y) =        *)
(* exp(x) * exp(y), exp(-inf) = 0, exp is increasing, and a result below   *)
(* half a unit underflows to 0, as expf does.                              *)
(***************************************************************************)
EXTENDS Integers, Naturals, Sequences, FiniteSets, TLC

VARIABLES
    a_pc,      \* attention: "call", "loop", "done"
    a_hd,      \* attention: head_dim
    a_n,       \* attention: seq_len
    a_q,       \* attention: q
    a_k,       \* attention: key_cache
    a_v,       \* attention: value_cache
    a_out,     \* attention: output
    a_t,       \* attention: loop variable t
    a_rmax,    \* attention: running_max
    a_rsum,    \* attention: running_sum
    a_scale,   \* attention: scale
    a_ndiv,    \* attention: number of divisions performed by the call so far
    m_sched,   \* multi_head_attention: "loop" (the order of the for loop) or "any"
    m_nh,      \* multi_head_attention: n_heads
    m_nkv,     \* multi_head_attention: n_kv_heads
    m_hd,      \* multi_head_attention: head_dim
    m_n,       \* multi_head_attention: seq_len
    m_q,       \* multi_head_attention: q
    m_k,       \* multi_head_attention: key_cache
    m_v,       \* multi_head_attention: value_cache
    m_out,     \* multi_head_attention: output
    m_pc,      \* per head: "idle", "loop", "done", "panic"
    m_kvh,     \* per head: kv_head
    m_t,       \* per head: loop variable t of attention_strided
    m_rmax,    \* per head: running_max
    m_rsum,    \* per head: running_sum
    m_scale,   \* per head: scale
    m_ndiv,    \* per head: number of float divisions performed so far
    c_pc,      \* codec: which conversions have been applied
    c_x,       \* codec: the f32 given to fp32_to_fp16
    c_h,       \* codec: the half pattern (given, or the result of fp32_to_fp16)
    c_y,       \* codec: the result of fp16_to_fp32(c_h)
    c_h2,      \* codec: the result of fp32_to_fp16(c_y)
    k_kind,    \* cache: "f32" (KvCache) or "fp16" (Fp16KvCache)
    k_args,    \* cache: the arguments of new
    k_self,    \* cache: the struct
    k_status,  \* cache: "ok", or "panic" after a call that panicked
    k_last,    \* cache: the last call made
    k_at,      \* cache: the (layer, pos, data) or (layer, seq_len) given to it
    k_out,     \* cache: what the last call returned or left in its output buffer
    k_adv,     \* cache: number of advance calls since new or the last reset
    k_mark,    \* cache: per store and slot, the vector last written at it
    k_ops,     \* cache: number of calls made
    f_file,    \* the file at the snapshot's path
    f_saved,   \* the cache as it was when the last complete save was made
    s_res,     \* what the last save returned
    l_res,     \* what the last load_from returned
    r_pc,      \* rope: "new", "call", "done", "panic"
    r_fn,      \* rope: the method called, "apply" or "apply_multi_head"
    r_args,    \* rope: the arguments of new (max_seq_len, head_dim, rope_theta)
    r_self,    \* rope: the table
    r_nh,      \* rope: n_heads of apply_multi_head
    r_pos,     \* rope: pos
    r_in,      \* rope: the vector as the caller passed it
    r_vec,     \* rope: the vector
    r_h,       \* rope: loop variable h of apply_multi_head
    d_rows,    \* platform db: the rows of table tenants
    d_ops,     \* platform db: number of calls made
    d_last,    \* platform db: the last call
    d_args,    \* platform db: its arguments
    d_ret,     \* platform db: what it returned
    d_used,    \* platform db: slugs whose code a validate_pairing consumed, until reset_pairing_code
    g_pc,      \* gateway: "start", "serving"
    g_cfg,     \* gateway: GatewayConfig.require_pairing
    g_env,     \* gateway: the variable BIZCLAW_PAIRING_CODE, if set
    g_file,    \* gateway: the file .pairing_code, if it can be read
    g_state,   \* gateway: AppState.pairing_code
    g_n,       \* gateway: number of requests served
    g_req,     \* gateway: the last request
    g_resp     \* gateway: the response to it

attnVars == <<a_pc, a_hd, a_n, a_q, a_k, a_v, a_out, a_t, a_rmax, a_rsum,
              a_scale, a_ndiv>>

mhaVars == <<m_sched, m_nh, m_nkv, m_hd, m_n, m_q, m_k, m_v, m_out, m_pc, m_kvh,
             m_t, m_rmax, m_rsum, m_scale, m_ndiv>>

codecVars == <<c_pc, c_x, c_h, c_y, c_h2>>

storeVars == <<k_kind, k_args, k_self, k_status, k_last, k_at, k_out, k_adv, k_mark, k_ops,
               f_file, f_saved, s_res, l_res>>

ropeVars == <<r_pc, r_fn, r_args, r_self, r_nh, r_pos, r_in, r_vec, r_h>>

dbVars == <<d_rows, d_ops, d_last, d_args, d_ret, d_used>>

gwVars == <<g_pc, g_cfg, g_env, g_file, g_state, g_n, g_req, g_resp>>

vars == <<attnVars, mhaVars, codecVars, storeVars, ropeVars, dbVars, gwVars>>

\* what a step of one component leaves alone: the variables of the others
notAttn == <<mhaVars, codecVars, storeVars, ropeVars, dbVars, gwVars>>

notMha == <<attnVars, codecVars, storeVars, ropeVars, dbVars, gwVars>>

notCodec == <<attnVars, mhaVars, storeVars, ropeVars, dbVars, gwVars>>

notStore == <<attnVars, mhaVars, codecVars, ropeVars, dbVars, gwVars>>

notRope == <<attnVars, mhaVars, codecVars, storeVars, dbVars, gwVars>>

notDb == <<attnVars, mhaVars, codecVars, storeVars, ropeVars, gwVars>>

notGw == <<attnVars, mhaVars, codecVars, storeVars, ropeVars, dbVars>>

--------------------------------------------------------------------------
(* Bounds of the model *)

FracBits == 8

MaxInt == 15

MaxSeqLen == 3

MhaMaxSeqLen == 2

\* the largest number of calls made on one cache
MaxOps == 3

\* calls made on one platform database
MaxDbOps == 5

\* requests served by one gateway
MaxRequests == 1

--------------------------------------------------------------------------
(* Reduced-width model of f32 *)

ONE == 2 ^ FracBits

MaxFinite == MaxInt * ONE

PInf == MaxFinite + 1

NInf == 0 - PInf

NaN == MaxFinite + 2

IsNaN(x) == x = NaN

IsInf(x) == x = PInf \/ x = NInf

IsFinite(x) == ~IsNaN(x) /\ ~IsInf(x)

Sgn(x) == IF x > 0 THEN 1 ELSE IF x < 0 THEN 0 - 1 ELSE 0

Abs(x) == IF x < 0 THEN 0 - x ELSE x

\* n / d rounded to the nearest integer, ties to even (d > 0)
RoundDiv(n, d) ==
    LET fl == n \div d
        r  == n % d
    IN  IF 2 * r < d THEN fl
        ELSE IF 2 * r > d THEN fl + 1
        ELSE IF fl % 2 = 0 THEN fl ELSE fl + 1

\* overflow of a finite result to an infinity
Fin(x) == IF x > MaxFinite THEN PInf ELSE IF x < 0 - MaxFinite THEN NInf ELSE x

FNeg(a) == IF IsNaN(a) THEN NaN ELSE 0 - a

FAdd(a, b) ==
    IF IsNaN(a) \/ IsNaN(b) THEN NaN
    ELSE IF IsInf(a) /\ IsInf(b) THEN (IF a = b THEN a ELSE NaN)
    ELSE IF IsInf(a) THEN a
    ELSE IF IsInf(b) THEN b
    ELSE Fin(a + b)

FSub(a, b) == FAdd(a, FNeg(b))

FMul(a, b) ==
    IF IsNaN(a) \/ IsNaN(b) THEN NaN
    ELSE IF IsInf(a) \/ IsInf(b)
         THEN (IF a = 0 \/ b = 0 THEN NaN
               ELSE IF Sgn(a) * Sgn(b) > 0 THEN PInf ELSE NInf)
    ELSE Fin(RoundDiv(a * b, ONE))

FDiv(a, b) ==
    IF IsNaN(a) \/ IsNaN(b) THEN NaN
    ELSE IF IsInf(a)
         THEN (IF IsInf(b) THEN NaN
               ELSE IF Sgn(a) * (IF b < 0 THEN 0 - 1 ELSE 1) > 0 THEN PInf ELSE NInf)
    ELSE IF IsInf(b) THEN 0
    ELSE IF b = 0
         THEN (IF a = 0 THEN NaN ELSE IF a > 0 THEN PInf ELSE NInf)
    ELSE Fin(RoundDiv(Sgn(b) * a * ONE, Abs(b)))

\* f32::max: the other operand when one is NaN
FMax(a, b) ==
    IF IsNaN(a) THEN b
    ELSE IF IsNaN(b) THEN a
    ELSE IF a > b THEN a ELSE b

\* a > b on floats: false when either is NaN
FGt(a, b) == ~IsNaN(a) /\ ~IsNaN(b) /\ a > b

\* f32::exp
FExp(x) ==
    IF IsNaN(x) THEN NaN
    ELSE IF x = PInf THEN PInf
    ELSE IF x = NInf THEN 0
    ELSE LET h == (2 * x) \div ONE
         IN  IF h <= 0
             THEN (IF 0 - h > FracBits + 1 THEN 0 ELSE RoundDiv(ONE, 2 ^ (0 - h)))
             ELSE (IF h > 2 * FracBits THEN PInf ELSE Fin(ONE * 2 ^ h))

\* the largest r in lo..hi with r * r <= t (lo * lo <= t)
RECURSIVE ISqrtIn(_, _, _)
ISqrtIn(t, lo, hi) ==
    IF lo = hi THEN lo
    ELSE LET mid == (lo + hi + 1) \div 2
         IN  IF mid * mid <= t THEN ISqrtIn(t, mid, hi) ELSE ISqrtIn(t, lo, mid - 1)

\* (x as f32).sqrt() of a small whole number x, rounded to nearest
FSqrtInt(x) ==
    LET t == x * ONE * ONE
        r == ISqrtIn(t, 0, x * ONE)
    IN  IF t - r * r <= (r + 1) * (r + 1) - t THEN r ELSE r + 1

Zeros(n) == [i \in 1..n |-> 0]

--------------------------------------------------------------------------
(* attention.rs: attention (single head) *)

\* let scale = 1.0 / (head_dim as f32).sqrt()
AttnScale(hd) == FDiv(ONE, FSqrtInt(hd))

\* the dot product loop: dot += q[i] * k[i] for i in 0..head_dim
RECURSIVE AttnDot(_, _, _, _)
AttnDot(q, kc, k_offset, i) ==
    IF i = 0 THEN 0
    ELSE FAdd(AttnDot(q, kc, k_offset, i - 1), FMul(q[i], kc[k_offset + i]))

\* AttnIterate with the accumulator not rescaled when the maximum moves
AttnIterate_NoRescale(st, q, kc, vc, t, hd, scale) ==
    LET k_offset  == t * hd
        score     == FMul(AttnDot(q, kc, k_offset, hd), scale)
        new_max   == FMax(st.rmax, score)
        scale_old == FExp(FSub(st.rmax, new_max))
        exp_score == FExp(FSub(score, new_max))
        v_offset  == t * hd
    IN  [rmax |-> new_max,
         rsum |-> FAdd(FMul(st.rsum, scale_old), exp_score),
         out  |-> [i \in 1..hd |->
                     FAdd(st.out[i], FMul(exp_score, vc[v_offset + i]))]]

\* AttnIterate with the score taken as the new maximum
AttnIterate_MaxIsScore(st, q, kc, vc, t, hd, scale) ==
    LET k_offset  == t * hd
        score     == FMul(AttnDot(q, kc, k_offset, hd), scale)
        new_max   == score
        scale_old == FExp(FSub(st.rmax, new_max))
        exp_score == FExp(FSub(score, new_max))
        v_offset  == t * hd
    IN  [rmax |-> new_max,
         rsum |-> FAdd(FMul(st.rsum, scale_old), exp_score),
         out  |-> [i \in 1..hd |->
                     FAdd(FMul(st.out[i], scale_old),
                          FMul(exp_score, vc[v_offset + i]))]]

\* one iteration of the online softmax loop, for position t
AttnIterate(st, q, kc, vc, t, hd, scale) ==
    LET k_offset  == t * hd
        score     == FMul(AttnDot(q, kc, k_offset, hd), scale)
        new_max   == FMax(st.rmax, score)
        scale_old == FExp(FSub(st.rmax, new_max))
        exp_score == FExp(FSub(score, new_max))
        v_offset  == t * hd
    IN  [rmax |-> new_max,
         rsum |-> FAdd(FMul(st.rsum, scale_old), exp_score),
         out  |-> [i \in 1..hd |->
                     FAdd(FMul(st.out[i], scale_old),
                          FMul(exp_score, vc[v_offset + i]))]]

\* AttnNormalize with the division by running_sum left out
AttnNormalize_Skipped(st) == st.out

\* final normalization
AttnNormalize(st) ==
    IF FGt(st.rsum, 0)
    THEN LET inv_sum == FDiv(ONE, st.rsum)
         IN  [i \in DOMAIN st.out |-> FMul(st.out[i], inv_sum)]
    ELSE st.out

\* AttnInitState with running_max started at 0 instead of -infinity
AttnInitState_MaxZero(hd) == [rmax |-> 0, rsum |-> 0, out |-> Zeros(hd)]


AttnInitState(hd) == [rmax |-> NInf, rsum |-> 0, out |-> Zeros(hd)]

RECURSIVE AttnLoop(_, _, _, _, _, _, _, _)
AttnLoop(st, q, kc, vc, t, n, hd, scale) ==
    IF t = n THEN st
    ELSE AttnLoop(AttnIterate(st, q, kc, vc, t, hd, scale),
                  q, kc, vc, t + 1, n, hd, scale)

\* the whole call, as a function of its arguments
Attention(q, kc, vc, n, hd) ==
    IF n = 0 THEN Zeros(hd)
    ELSE AttnNormalize(AttnLoop(AttnInitState(hd), q, kc, vc, 0, n, hd, AttnScale(hd)))

--------------------------------------------------------------------------
(* attention.rs: attention_strided and multi_head_attention *)

\* output[off .. off + len), as a vector of its own
Slice(arr, off, len) == [i \in 1..len |-> arr[off + i]]

\* arr with arr[off .. off + len(vec)) replaced by vec
WriteSlice(arr, off, vec) ==
    [j \in DOMAIN arr |->
        IF j > off /\ j <= off + Len(vec) THEN vec[j - off] ELSE arr[j]]

\* let gqa_ratio = n_heads / n_kv_heads
GqaRatio(nh, nkv) == nh \div nkv

\* QOffset with slices that overlap
QOffset_Overlap(h, hd) == h * (hd - 1)

\* let q_offset = h * head_dim
QOffset(h, hd) == h * hd

\* KvHead with the query heads dealt round-robin over the key/value heads
KvHead_RoundRobin(h, nh, nkv) == h % nkv

\* let kv_head = h / gqa_ratio
KvHead(h, nh, nkv) == h \div GqaRatio(nh, nkv)

\* let kv_stride = n_kv_heads * head_dim
KvStride(nkv, hd) == nkv * hd

\* KvBase one head further
KvBase_NextHead(kv_head, hd) == (kv_head + 1) * hd

\* let k_base = kv_head * head_dim; let v_base = kv_head * head_dim
KvBase(kv_head, hd) == kv_head * hd

StridedScale(hd) == FDiv(ONE, FSqrtInt(hd))

\* dot += q[i] * key_cache[k_offset + i] for i in 0..head_dim
RECURSIVE StridedDot(_, _, _, _)
StridedDot(q, kc, k_offset, i) ==
    IF i = 0 THEN 0
    ELSE FAdd(StridedDot(q, kc, k_offset, i - 1), FMul(q[i], kc[k_offset + i]))

\* StridedIterate with positions head_dim apart instead of kv_stride apart
StridedIterate_Unstrided(st, q, kc, vc, t, hd, scale, kv_stride, k_base, v_base) ==
    LET k_offset  == t * hd + k_base
        v_offset  == t * hd + v_base
        score     == FMul(StridedDot(q, kc, k_offset, hd), scale)
        new_max   == FMax(st.rmax, score)
        scale_old == FExp(FSub(st.rmax, new_max))
        exp_score == FExp(FSub(score, new_max))
    IN  [rmax |-> new_max,
         rsum |-> FAdd(FMul(st.rsum, scale_old), exp_score),
         out  |-> [i \in 1..hd |->
                     FAdd(FMul(st.out[i], scale_old),
                          FMul(exp_score, vc[v_offset + i]))]]

\* one iteration of the loop of attention_strided, for position t
StridedIterate(st, q, kc, vc, t, hd, scale, kv_stride, k_base, v_base) ==
    LET k_offset  == t * kv_stride + k_base
        v_offset  == t * kv_stride + v_base
        score     == FMul(StridedDot(q, kc, k_offset, hd), scale)
        new_max   == FMax(st.rmax, score)
        scale_old == FExp(FSub(st.rmax, new_max))
        exp_score == FExp(FSub(score, new_max))
    IN  [rmax |-> new_max,
         rsum |-> FAdd(FMul(st.rsum, scale_old), exp_score),
         out  |-> [i \in 1..hd |->
                     FAdd(FMul(st.out[i], scale_old),
                          FMul(exp_score, vc[v_offset + i]))]]

StridedNormalize(st) ==
    IF FGt(st.rsum, 0)
    THEN LET inv_sum == FDiv(ONE, st.rsum)
         IN  [i \in DOMAIN st.out |-> FMul(st.out[i], inv_sum)]
    ELSE st.out

StridedInitState(hd) == [rmax |-> NInf, rsum |-> 0, out |-> Zeros(hd)]

RECURSIVE StridedLoop(_, _, _, _, _, _, _, _, _, _, _)
StridedLoop(st, q, kc, vc, t, n, hd, scale, kv_stride, k_base, v_base) ==
    IF t = n THEN st
    ELSE StridedLoop(StridedIterate(st, q, kc, vc, t, hd, scale, kv_stride, k_base, v_base),
                     q, kc, vc, t + 1, n, hd, scale, kv_stride, k_base, v_base)

\* one call of attention_strided, as a function of its arguments
AttentionStrided(q, kc, vc, n, hd, kv_stride, k_base, v_base) ==
    IF n = 0 THEN Zeros(hd)
    ELSE StridedNormalize(StridedLoop(StridedInitState(hd), q, kc, vc, 0, n, hd,
                                      StridedScale(hd), kv_stride, k_base, v_base))

\* the body of for h in 0..n_heads: the output after head h has been computed
MhaHead(out, q, kc, vc, nh, nkv, n, hd, h) ==
    LET q_offset == QOffset(h, hd)
        base     == KvBase(KvHead(h, nh, nkv), hd)
    IN  WriteSlice(out, q_offset,
                   AttentionStrided(Slice(q, q_offset, hd), kc, vc, n, hd,
                                    KvStride(nkv, hd), base, base))

\* the heads h .. n_heads - 1 in the order of the loop
RECURSIVE MhaFrom(_, _, _, _, _, _, _, _, _)
MhaFrom(out, q, kc, vc, nh, nkv, n, hd, h) ==
    IF h = nh THEN out
    ELSE MhaFrom(MhaHead(out, q, kc, vc, nh, nkv, n, hd, h),
                 q, kc, vc, nh, nkv, n, hd, h + 1)

\* the whole call, as a function of its arguments
MultiHeadAttention(out, q, kc, vc, nh, nkv, n, hd) ==
    MhaFrom(out, q, kc, vc, nh, nkv, n, hd, 0)

--------------------------------------------------------------------------
(* Inputs of the single-head calls.  Vectors are written in whole numbers *)
(* and scaled by ONE.                                                     *)

Scaled(vec) == [i \in DOMAIN vec |-> vec[i] * ONE]

Const(n, x) == [i \in 1..n |-> x]

HeadDims == {1, 4}

QVecs(hd) ==
    IF hd = 1 THEN {Scaled(<<1>>), Scaled(<<5>>)}
    ELSE {Scaled(<<1, 0, 0, 0>>), Scaled(<<2, 2, 0, 0>>)}

KVecs(hd) ==
    IF hd = 1 THEN {Scaled(<<0 - 1>>), Scaled(<<0>>), Scaled(<<1>>), Scaled(<<5>>)}
    ELSE {Scaled(<<1, 0, 0, 0>>), Scaled(<<0, 1, 0, 0>>), Scaled(<<1, 1, 0, 0>>)}

VVecs(hd) ==
    IF hd = 1 THEN {Scaled(<<0 - 1>>), Scaled(<<1>>), Scaled(<<3>>)}
    ELSE {Scaled(<<1, 0, 0, 0>>), Scaled(<<0, 1, 0, 0>>), Scaled(<<0, 0, 1, 0>>),
          Scaled(<<1, 3, 0 - 1, 0>>)}

\* what the output buffer holds before the call
OutBefore(hd) == {Const(hd, ONE), Const(hd, NaN)}

\* the n vectors rows[1..n] laid out one after the other: [seq_len x head_dim]
Flat(rows, n, hd) ==
    [j \in 1..(n * hd) |-> rows[((j - 1) \div hd) + 1][((j - 1) % hd) + 1]]

\* the vector at position t of a [seq_len x head_dim] array
Row(arr, t, hd) == [i \in 1..hd |-> arr[t * hd + i]]

--------------------------------------------------------------------------
(* attention as a process: the call, the loop, the normalization *)

InitAttn ==
    /\ a_pc = "call"
    /\ a_hd \in HeadDims
    /\ a_n \in 0..MaxSeqLen
    /\ a_q \in QVecs(a_hd)
    /\ \E kr \in [1..a_n -> KVecs(a_hd)] : a_k = Flat(kr, a_n, a_hd)
    /\ \E vr \in [1..a_n -> VVecs(a_hd)] : a_v = Flat(vr, a_n, a_hd)
    /\ a_out \in OutBefore(a_hd)
    /\ a_t = 0
    /\ a_rmax = 0
    /\ a_rsum = 0
    /\ a_scale = 0
    /\ a_ndiv = 0

\* AttnEmpty returning without zeroing the output
AttnEmpty_NotZeroed ==
    /\ a_pc = "call"
    /\ a_n = 0
    /\ a_pc' = "done"
    /\ UNCHANGED <<a_hd, a_n, a_q, a_k, a_v, a_out, a_t, a_rmax, a_rsum, a_scale, a_ndiv>>
    /\ UNCHANGED notAttn

\* lines 25-28: seq_len == 0 zeroes the output and returns
AttnEmpty ==
    /\ a_pc = "call"
    /\ a_n = 0
    /\ a_out' = Zeros(a_hd)
    /\ a_pc' = "done"
    /\ UNCHANGED <<a_hd, a_n, a_q, a_k, a_v, a_t, a_rmax, a_rsum, a_scale, a_ndiv>>
    /\ UNCHANGED notAttn

\* lines 30-36: scale, running_max, running_sum, the output zeroed
AttnEnter ==
    /\ a_pc = "call"
    /\ a_n # 0
    /\ a_scale' = AttnScale(a_hd)
    /\ a_ndiv' = a_ndiv + 1
    /\ a_rmax' = AttnInitState(a_hd).rmax
    /\ a_rsum' = AttnInitState(a_hd).rsum
    /\ a_out' = AttnInitState(a_hd).out
    /\ a_t' = 0
    /\ a_pc' = "loop"
    /\ UNCHANGED <<a_hd, a_n, a_q, a_k, a_v>>
    /\ UNCHANGED notAttn

\* lines 38-66: one iteration of for t in 0..seq_len
AttnStep ==
    /\ a_pc = "loop"
    /\ a_t < a_n
    /\ LET st == AttnIterate([rmax |-> a_rmax, rsum |-> a_rsum, out |-> a_out],
                             a_q, a_k, a_v, a_t, a_hd, a_scale)
       IN  /\ a_rmax' = st.rmax
           /\ a_rsum' = st.rsum
           /\ a_out' = st.out
    /\ a_t' = a_t + 1
    /\ UNCHANGED <<a_pc, a_hd, a_n, a_q, a_k, a_v, a_scale, a_ndiv>>
    /\ UNCHANGED notAttn

\* lines 68-75: the final normalization and the return
AttnFinish ==
    /\ a_pc = "loop"
    /\ a_t = a_n
    /\ a_out' = AttnNormalize([rmax |-> a_rmax, rsum |-> a_rsum, out |-> a_out])
    /\ a_ndiv' = IF FGt(a_rsum, 0) THEN a_ndiv + 1 ELSE a_ndiv
    /\ a_pc' = "done"
    /\ UNCHANGED <<a_hd, a_n, a_q, a_k, a_v, a_t, a_rmax, a_rsum, a_scale>>
    /\ UNCHANGED notAttn

NextAttn == AttnEmpty \/ AttnEnter \/ AttnStep \/ AttnFinish

\* no single-head call in progress
IdleAttn ==
    /\ a_pc = "none"
    /\ a_hd = 0
    /\ a_n = 0
    /\ a_q = <<>>
    /\ a_k = <<>>
    /\ a_v = <<>>
    /\ a_out = <<>>
    /\ a_t = 0
    /\ a_rmax = 0
    /\ a_rsum = 0
    /\ a_scale = 0
    /\ a_ndiv = 0

--------------------------------------------------------------------------
(* multi_head_attention as a process.  The for loop runs the heads one    *)
(* after the other (m_sched = "loop"); with m_sched = "any" the steps of  *)
(* the head computations are run in any order and interleaving.           *)

\* (n_heads, n_kv_heads): n_heads a multiple of n_kv_heads, and two that are not
MhaConfigs == {<<1, 1>>, <<2, 1>>, <<2, 2>>, <<4, 2>>, <<3, 2>>, <<1, 2>>}

MhaSeeds == {0, 1}

MhaQ(seed, len) == [j \in 1..len |-> ONE * (1 + ((j + seed) % 2))]

MhaK(seed, len) == [j \in 1..len |-> ONE * (((j * (seed + 1) + seed) % 3) - 1)]

MhaV(seed, len) == [j \in 1..len |-> ONE * (((j * j + seed) % 5) - 1)]

Heads == 0..(m_nh - 1)

InitMha ==
    /\ m_sched \in {"loop", "any"}
    /\ \E c \in MhaConfigs : m_nh = c[1] /\ m_nkv = c[2]
    /\ m_hd \in HeadDims
    /\ m_n \in 0..MhaMaxSeqLen
    /\ \E s \in MhaSeeds : m_q = MhaQ(s, m_nh * m_hd)
    /\ \E s \in MhaSeeds : m_k = MhaK(s, m_n * m_nkv * m_hd)
    /\ \E s \in MhaSeeds : m_v = MhaV(s, m_n * m_nkv * m_hd)
    /\ m_out \in OutBefore(m_nh * m_hd)
    /\ m_pc = [h \in Heads |-> "idle"]
    /\ m_kvh = [h \in Heads |-> 0]
    /\ m_t = [h \in Heads |-> 0]
    /\ m_rmax = [h \in Heads |-> 0]
    /\ m_rsum = [h \in Heads |-> 0]
    /\ m_scale = [h \in Heads |-> 0]
    /\ m_ndiv = [h \in Heads |-> 0]

\* the for loop reaches head h after the heads before it
MhaMayBegin(h) ==
    IF m_sched = "any" \/ h = 0 THEN TRUE ELSE m_pc[h - 1] = "done"

\* line 92 with gqa_ratio == 0: the integer division panics
MhaDivideByZero(h) ==
    /\ m_pc[h] = "idle"
    /\ MhaMayBegin(h)
    /\ GqaRatio(m_nh, m_nkv) = 0
    /\ m_pc' = [m_pc EXCEPT ![h] = "panic"]
    /\ UNCHANGED <<m_sched, m_nh, m_nkv, m_hd, m_n, m_q, m_k, m_v, m_out, m_kvh,
                   m_t, m_rmax, m_rsum, m_scale, m_ndiv>>
    /\ UNCHANGED notMha

\* lines 91-101 and 130-133: the offsets of head h; seq_len == 0 zeroes its slice
MhaEmpty(h) ==
    /\ m_pc[h] = "idle"
    /\ MhaMayBegin(h)
    /\ GqaRatio(m_nh, m_nkv) # 0
    /\ m_n = 0
    /\ m_kvh' = [m_kvh EXCEPT ![h] = KvHead(h, m_nh, m_nkv)]
    /\ m_out' = WriteSlice(m_out, QOffset(h, m_hd), Zeros(m_hd))
    /\ m_pc' = [m_pc EXCEPT ![h] = "done"]
    /\ UNCHANGED <<m_sched, m_nh, m_nkv, m_hd, m_n, m_q, m_k, m_v,
                   m_t, m_rmax, m_rsum, m_scale, m_ndiv>>
    /\ UNCHANGED notMha

\* lines 91-101 and 135-138: the offsets of head h, scale, the running state
MhaEnter(h) ==
    /\ m_pc[h] = "idle"
    /\ MhaMayBegin(h)
    /\ GqaRatio(m_nh, m_nkv) # 0
    /\ m_n # 0
    /\ m_kvh' = [m_kvh EXCEPT ![h] = KvHead(h, m_nh, m_nkv)]
    /\ m_scale' = [m_scale EXCEPT ![h] = StridedScale(m_hd)]
    /\ m_ndiv' = [m_ndiv EXCEPT ![h] = @ + 1]
    /\ m_rmax' = [m_rmax EXCEPT ![h] = StridedInitState(m_hd).rmax]
    /\ m_rsum' = [m_rsum EXCEPT ![h] = StridedInitState(m_hd).rsum]
    /\ m_out' = WriteSlice(m_out, QOffset(h, m_hd), StridedInitState(m_hd).out)
    /\ m_t' = [m_t EXCEPT ![h] = 0]
    /\ m_pc' = [m_pc EXCEPT ![h] = "loop"]
    /\ UNCHANGED <<m_sched, m_nh, m_nkv, m_hd, m_n, m_q, m_k, m_v>>
    /\ UNCHANGED notMha

\* the highest index (from 0) that iteration t of head h reads, plus one
MhaReadEnd(h) == m_t[h] * KvStride(m_nkv, m_hd) + KvBase(m_kvh[h], m_hd) + m_hd

\* lines 140-161: one iteration of for t in 0..seq_len of head h
MhaStep(h) ==
    /\ m_pc[h] = "loop"
    /\ m_t[h] < m_n
    /\ MhaReadEnd(h) <= Len(m_k)
    /\ LET q_offset == QOffset(h, m_hd)
           base     == KvBase(m_kvh[h], m_hd)
           st == StridedIterate([rmax |-> m_rmax[h], rsum |-> m_rsum[h],
                                 out |-> Slice(m_out, q_offset, m_hd)],
                                Slice(m_q, q_offset, m_hd), m_k, m_v, m_t[h], m_hd,
                                m_scale[h], KvStride(m_nkv, m_hd), base, base)
       IN  /\ m_rmax' = [m_rmax EXCEPT ![h] = st.rmax]
           /\ m_rsum' = [m_rsum EXCEPT ![h] = st.rsum]
           /\ m_out' = WriteSlice(m_out, q_offset, st.out)
    /\ m_t' = [m_t EXCEPT ![h] = @ + 1]
    /\ UNCHANGED <<m_sched, m_nh, m_nkv, m_hd, m_n, m_q, m_k, m_v, m_pc, m_kvh,
                   m_scale, m_ndiv>>
    /\ UNCHANGED notMha

\* line 146: key_cache[k_offset + i] beyond the end of key_cache panics
MhaOutOfBounds(h) ==
    /\ m_pc[h] = "loop"
    /\ m_t[h] < m_n
    /\ MhaReadEnd(h) > Len(m_k)
    /\ m_pc' = [m_pc EXCEPT ![h] = "panic"]
    /\ UNCHANGED <<m_sched, m_nh, m_nkv, m_hd, m_n, m_q, m_k, m_v, m_out, m_kvh,
                   m_t, m_rmax, m_rsum, m_scale, m_ndiv>>
    /\ UNCHANGED notMha

\* lines 163-168: the final normalization of head h
MhaFinish(h) ==
    /\ m_pc[h] = "loop"
    /\ m_t[h] = m_n
    /\ LET q_offset == QOffset(h, m_hd)
       IN  m_out' = WriteSlice(m_out, q_offset,
                       StridedNormalize([rmax |-> m_rmax[h], rsum |-> m_rsum[h],
                                         out |-> Slice(m_out, q_offset, m_hd)]))
    /\ m_ndiv' = [m_ndiv EXCEPT ![h] = IF FGt(m_rsum[h], 0) THEN @ + 1 ELSE @]
    /\ m_pc' = [m_pc EXCEPT ![h] = "done"]
    /\ UNCHANGED <<m_sched, m_nh, m_nkv, m_hd, m_n, m_q, m_k, m_v, m_kvh,
                   m_t, m_rmax, m_rsum, m_scale>>
    /\ UNCHANGED notMha

NextMha ==
    \/ \E h \in Heads : MhaDivideByZero(h)
    \/ \E h \in Heads : MhaEmpty(h)
    \/ \E h \in Heads : MhaEnter(h)
    \/ \E h \in Heads : MhaStep(h)
    \/ \E h \in Heads : MhaOutOfBounds(h)
    \/ \E h \in Heads : MhaFinish(h)

\* no multi-head call in progress
IdleMha ==
    /\ m_sched = "none"
    /\ m_nh = 0
    /\ m_nkv = 0
    /\ m_hd = 0
    /\ m_n = 0
    /\ m_q = <<>>
    /\ m_k = <<>>
    /\ m_v = <<>>
    /\ m_out = <<>>
    /\ m_pc = <<>>
    /\ m_kvh = <<>>
    /\ m_t = <<>>
    /\ m_rmax = <<>>
    /\ m_rsum = <<>>
    /\ m_scale = <<>>
    /\ m_ndiv = <<>>

--------------------------------------------------------------------------
(* kv_cache.rs: the half-precision codec.  A u16 is its number; an f32 is *)
(* its bit pattern, held as the three fields the code takes it apart into *)
(* and puts it together from: s = bit 31, e = bits 23-30, m = bits 0-22.  *)

RECURSIVE BitOr(_, _)
BitOr(a, b) ==
    IF a = 0 THEN b
    ELSE IF b = 0 THEN a
    ELSE (IF a % 2 = 1 \/ b % 2 = 1 THEN 1 ELSE 0) + 2 * BitOr(a \div 2, b \div 2)

RECURSIVE BitAnd(_, _)
BitAnd(a, b) ==
    IF a = 0 \/ b = 0 THEN 0
    ELSE (IF a % 2 = 1 /\ b % 2 = 1 THEN 1 ELSE 0) + 2 * BitAnd(a \div 2, b \div 2)

Shr(a, k) == a \div (2 ^ k)

Shl(a, k) == a * (2 ^ k)

\* f32::from_bits(sign | (exponent << 23) | mantissa): an exponent or a mantissa
\* wider than its field carries into the bits above it
F32Bits(sign, exponent, mantissa) ==
    LET e == exponent + Shr(mantissa, 23)
    IN  [s |-> (sign + Shr(e, 8)) % 2, e |-> e % 256, m |-> mantissa % (2 ^ 23)]

\* fp32_to_fp16 rounding the mantissa to nearest instead of truncating it
fp32_to_fp16_Rounding(value) ==
    LET sign     == Shl(value.s, 15)
        exponent == value.e
        mantissa == value.m
        exp      == exponent - 127 + 15
    IN  IF exponent = 255
        THEN BitOr(BitOr(sign, 31744), IF mantissa # 0 THEN 512 ELSE 0)
        ELSE IF exp >= 31 THEN BitOr(sign, 31744)
        ELSE IF exp <= 0
             THEN (IF exp < 0 - 10 THEN sign
                   ELSE LET m == Shr(BitOr(mantissa, 8388608), 1 - exp)
                        IN  BitOr(sign, Shr(m, 13)))
        ELSE sign + Shl(exp, 10) + Shr(mantissa + 4096, 13)

\* fp32_to_fp16 keeping the top bits of a NaN's payload instead of setting bit 9
fp32_to_fp16_Payload(value) ==
    LET sign     == Shl(value.s, 15)
        exponent == value.e
        mantissa == value.m
        exp      == exponent - 127 + 15
    IN  IF exponent = 255
        THEN BitOr(BitOr(sign, 31744), Shr(mantissa, 13))
        ELSE IF exp >= 31 THEN BitOr(sign, 31744)
        ELSE IF exp <= 0
             THEN (IF exp < 0 - 10 THEN sign
                   ELSE LET m == Shr(BitOr(mantissa, 8388608), 1 - exp)
                        IN  BitOr(sign, Shr(m, 13)))
        ELSE BitOr(BitOr(sign, Shl(exp, 10)), Shr(mantissa, 13))

\* fp32_to_fp16 saturating to the largest finite half instead of overflowing to
\* infinity, and flushing to +0 whatever the sign
fp32_to_fp16_Saturating(value) ==
    LET sign     == Shl(value.s, 15)
        exponent == value.e
        mantissa == value.m
        exp      == exponent - 127 + 15
    IN  IF exponent = 255
        THEN BitOr(BitOr(sign, 31744), IF mantissa # 0 THEN 512 ELSE 0)
        ELSE IF exp >= 31 THEN BitOr(sign, 31743)
        ELSE IF exp <= 0
             THEN (IF exp < 0 - 10 THEN 0
                   ELSE LET m == Shr(BitOr(mantissa, 8388608), 1 - exp)
                        IN  BitOr(sign, Shr(m, 13)))
        ELSE BitOr(BitOr(sign, Shl(exp, 10)), Shr(mantissa, 13))

\* pub fn fp32_to_fp16(value: f32) -> u16
fp32_to_fp16(value) ==
    LET sign     == Shl(value.s, 15)
        exponent == value.e
        mantissa == value.m
        exp      == exponent - 127 + 15
    IN  IF exponent = 255
        THEN BitOr(BitOr(sign, 31744), IF mantissa # 0 THEN 512 ELSE 0)
        ELSE IF exp >= 31 THEN BitOr(sign, 31744)
        ELSE IF exp <= 0
             THEN (IF exp < 0 - 10 THEN sign
                   ELSE LET m == Shr(BitOr(mantissa, 8388608), 1 - exp)
                        IN  BitOr(sign, Shr(m, 13)))
        ELSE BitOr(BitOr(sign, Shl(exp, 10)), Shr(mantissa, 13))

\* the while loop of fp16_to_fp32: m <<= 1; e += 1 until bit 10 of m is set
RECURSIVE Normalize16(_, _)
Normalize16(e, m) ==
    IF BitAnd(m, 1024) = 0 THEN Normalize16(e + 1, Shl(m, 1)) ELSE <<e, m>>

\* fp16_to_fp32 leaving the exponent of a normal half at the bias of the half
fp16_to_fp32_NoRebias(value) ==
    LET sign     == Shr(BitAnd(value, 32768), 15)
        exponent == BitAnd(Shr(value, 10), 31)
        mantissa == BitAnd(value, 1023)
    IN  IF exponent = 0
        THEN (IF mantissa = 0 THEN F32Bits(sign, 0, 0)
              ELSE LET em == Normalize16(1, mantissa)
                   IN  F32Bits(sign, 127 - 15 + 1 - em[1], Shl(BitAnd(em[2], 1023), 13)))
        ELSE IF exponent = 31 THEN F32Bits(sign, 255, Shl(mantissa, 13))
        ELSE F32Bits(sign, exponent, Shl(mantissa, 13))

\* pub fn fp16_to_fp32(value: u16) -> f32
fp16_to_fp32(value) ==
    LET sign     == Shr(BitAnd(value, 32768), 15)
        exponent == BitAnd(Shr(value, 10), 31)
        mantissa == BitAnd(value, 1023)
    IN  IF exponent = 0
        THEN (IF mantissa = 0 THEN F32Bits(sign, 0, 0)
              ELSE LET em == Normalize16(1, mantissa)
                   IN  F32Bits(sign, 127 - 15 + 1 - em[1], Shl(BitAnd(em[2], 1023), 13)))
        ELSE IF exponent = 31 THEN F32Bits(sign, 255, Shl(mantissa, 13))
        ELSE F32Bits(sign, exponent + 127 - 15, Shl(mantissa, 13))

\* the f32 patterns given to the codec: every exponent, both signs, and the
\* mantissas at the edges of the 13 bits that fp32_to_fp16 drops
F32Mantissas ==
    {0, 1, 4095, 4096, 8191, 8192, 8193, 4194304, 6291457, 8380416, 8388607}

F32Inputs == [s : {0, 1}, e : 0..255, m : F32Mantissas]

U16 == 0..65535

NoF32 == [s |-> 0, e |-> 0, m |-> 0]

InitCodec ==
    /\ c_pc \in {"f32", "f16"}
    /\ IF c_pc = "f32" THEN c_x \in F32Inputs /\ c_h = 0
                       ELSE c_x = NoF32 /\ c_h \in U16
    /\ c_y = NoF32
    /\ c_h2 = 0

\* store_key / store_value: an element of data goes through fp32_to_fp16
CodecEncode ==
    /\ c_pc = "f32"
    /\ c_h' = fp32_to_fp16(c_x)
    /\ c_pc' = "f32>f16"
    /\ UNCHANGED <<c_x, c_y, c_h2>>
    /\ UNCHANGED notCodec

\* load_keys / load_values: a stored half goes through fp16_to_fp32
CodecDecode ==
    /\ c_pc \in {"f16", "f32>f16"}
    /\ c_y' = fp16_to_fp32(c_h)
    /\ c_pc' = IF c_pc = "f16" THEN "f16>f32" ELSE "f32>f16>f32"
    /\ UNCHANGED <<c_x, c_h, c_h2>>
    /\ UNCHANGED notCodec

\* a loaded element stored again
CodecReencode ==
    /\ c_pc \in {"f16>f32", "f32>f16>f32"}
    /\ c_h2' = fp32_to_fp16(c_y)
    /\ c_pc' = IF c_pc = "f16>f32" THEN "f16>f32>f16" ELSE "f32>f16>f32>f16"
    /\ UNCHANGED <<c_x, c_h, c_y>>
    /\ UNCHANGED notCodec

NextCodec == CodecEncode \/ CodecDecode \/ CodecReencode

\* no conversion in progress
IdleCodec ==
    /\ c_pc = "none"
    /\ c_x = NoF32
    /\ c_h = 0
    /\ c_y = NoF32
    /\ c_h2 = 0

--------------------------------------------------------------------------
(* kv_cache.rs: KvCache and Fp16KvCache.  One cache is under             *)
(* consideration, of either kind (k_kind).  k_self is the struct; the     *)
(* elements of a KvCache are f32 patterns, those of an Fp16KvCache are    *)
(* u16.  A call that panics ends the use of the cache (k_status).         *)

PlusZero == [s |-> 0, e |-> 0, m |-> 0]

\* KvCache::new
KvCacheNew(n_layers, max_seq_len, n_kv_heads, head_dim) ==
    LET kv_dim == n_kv_heads * head_dim
        total  == n_layers * max_seq_len * kv_dim
    IN  [key_cache |-> Const(total, PlusZero), value_cache |-> Const(total, PlusZero),
         n_layers |-> n_layers, max_seq_len |-> max_seq_len, kv_dim |-> kv_dim,
         pos |-> 0]

\* Fp16KvCache::new
Fp16KvCacheNew(n_layers, max_seq_len, n_kv_heads, head_dim) ==
    LET kv_dim == n_kv_heads * head_dim
        total  == n_layers * max_seq_len * kv_dim
    IN  [key_cache |-> Const(total, 0), value_cache |-> Const(total, 0),
         n_layers |-> n_layers, max_seq_len |-> max_seq_len, kv_dim |-> kv_dim,
         pos |-> 0]

\* offset of the slot (layer, pos) in key_at_mut, value_at_mut, store_key, store_value
SlotOffset_PerLayer(self, layer, pos) == (layer + pos) * self.kv_dim

SlotOffset(self, layer, pos) == (layer * self.max_seq_len + pos) * self.kv_dim

\* offset of a layer in keys, values, load_keys, load_values
LayerOffset(self, layer) == layer * self.max_seq_len * self.kv_dim

\* key_at_mut / value_at_mut refusing a position beyond max_seq_len
SliceAtMut_Checked(arr, self, layer, pos, v) ==
    LET offset == SlotOffset(self, layer, pos)
    IN  IF pos >= self.max_seq_len \/ offset + self.kv_dim > Len(arr)
        THEN [arr |-> arr, panic |-> TRUE]
        ELSE [arr |-> WriteSlice(arr, offset, v), panic |-> FALSE]

\* &mut cache[offset..offset + kv_dim] filled with v by the caller; the slice
\* expression panics when it ends beyond the buffer
SliceAtMut(arr, self, layer, pos, v) ==
    LET offset == SlotOffset(self, layer, pos)
    IN  IF offset + self.kv_dim > Len(arr)
        THEN [arr |-> arr, panic |-> TRUE]
        ELSE [arr |-> WriteSlice(arr, offset, v), panic |-> FALSE]

\* &cache[offset..offset + seq_len * kv_dim]
SliceOf(arr, self, layer, seq_len) ==
    LET offset == LayerOffset(self, layer)
    IN  IF offset + seq_len * self.kv_dim > Len(arr)
        THEN [out |-> <<>>, panic |-> TRUE]
        ELSE [out |-> Slice(arr, offset, seq_len * self.kv_dim), panic |-> FALSE]

Min(a, b) == IF a < b THEN a ELSE b

\* store_key / store_value without take(kv_dim)
StoreHalves_NoTake(arr, self, layer, pos, data) ==
    LET offset == SlotOffset(self, layer, pos)
        n      == Len(data)
        room   == IF Len(arr) > offset THEN Len(arr) - offset ELSE 0
        done   == Min(n, room)
    IN  [arr |-> [j \in DOMAIN arr |->
                     IF j > offset /\ j <= offset + done
                     THEN fp32_to_fp16(data[j - offset]) ELSE arr[j]],
         panic |-> done < n]

\* the loop of store_key / store_value: data.iter().enumerate().take(kv_dim)
\* stores fp32_to_fp16 of each element and panics at the first index beyond
\* the buffer, the elements before it stored
StoreHalves(arr, self, layer, pos, data) ==
    LET offset == SlotOffset(self, layer, pos)
        n      == Min(Len(data), self.kv_dim)
        room   == IF Len(arr) > offset THEN Len(arr) - offset ELSE 0
        done   == Min(n, room)
    IN  [arr |-> [j \in DOMAIN arr |->
                     IF j > offset /\ j <= offset + done
                     THEN fp32_to_fp16(data[j - offset]) ELSE arr[j]],
         panic |-> done < n]

\* the loop of load_keys / load_values: output[i] = fp16_to_fp32(cache[offset + i])
\* for i in 0..count; it panics at the first index beyond either buffer
LoadHalves(arr, self, layer, seq_len, output) ==
    LET offset == LayerOffset(self, layer)
        count  == seq_len * self.kv_dim
        room   == IF Len(arr) > offset THEN Len(arr) - offset ELSE 0
        done   == Min(count, Min(room, Len(output)))
    IN  [out |-> [i \in DOMAIN output |->
                     IF i <= done THEN fp16_to_fp32(arr[offset + i]) ELSE output[i]],
         panic |-> done < count]

\* advance adding 2
AdvancePos_Twice(self) == [self EXCEPT !.pos = self.pos + 2]

\* KvCache::advance, Fp16KvCache::advance
AdvancePos(self) == [self EXCEPT !.pos = self.pos + 1]

\* KvCache::reset with the value store left as it is
KvReset_KeysOnly(self) ==
    [self EXCEPT !.key_cache = Const(Len(self.key_cache), PlusZero), !.pos = 0]

\* KvCache::reset
KvReset(self) ==
    [self EXCEPT !.key_cache = Const(Len(self.key_cache), PlusZero),
                 !.value_cache = Const(Len(self.value_cache), PlusZero),
                 !.pos = 0]

\* Fp16KvCache::reset
Fp16Reset(self) ==
    [self EXCEPT !.key_cache = Const(Len(self.key_cache), 0),
                 !.value_cache = Const(Len(self.value_cache), 0),
                 !.pos = 0]

\* std::mem::size_of::<f32>() and std::mem::size_of::<u16>()
SizeOfF32 == 4

SizeOfU16 == 2

\* KvCache::memory_usage
KvMemoryUsage(self) == (Len(self.key_cache) + Len(self.value_cache)) * SizeOfF32

\* Fp16KvCache::memory_usage counting the key store only
Fp16MemoryUsage_KeysOnly(self) == Len(self.key_cache) * SizeOfU16

\* Fp16KvCache::memory_usage
Fp16MemoryUsage(self) == (Len(self.key_cache) + Len(self.value_cache)) * SizeOfU16

--------------------------------------------------------------------------
(* The snapshot file.  A file is the sequence of its bytes; the path      *)
(* holds a file or none.                                                  *)

\* b"BCKV"
Magic == <<66, 67, 75, 86>>

\* (n as u32).to_le_bytes()
U32LeBytes(n) ==
    <<n % 256, (n \div 256) % 256, (n \div 65536) % 256, (n \div 16777216) % 256>>

\* u32::from_le_bytes(buf4) as usize
U32FromLe(b) == b[1] + 256 * b[2] + 65536 * b[3] + 16777216 * b[4]

\* cache.iter().flat_map(|&v| v.to_le_bytes()).collect()
RECURSIVE U16LeBytes(_)
U16LeBytes(arr) ==
    IF arr = <<>> THEN <<>>
    ELSE <<Head(arr) % 256, Head(arr) \div 256>> \o U16LeBytes(Tail(arr))

\* bytes.chunks_exact(2).map(|c| u16::from_le_bytes([c[0], c[1]])).collect()
U16FromLe(bytes) ==
    [i \in 1..(Len(bytes) \div 2) |-> bytes[2 * i - 1] + 256 * bytes[2 * i]]

\* the bytes that save writes with the value store before the key store
SaveBytes_ValuesFirst(self) ==
    Magic \o U32LeBytes(self.n_layers) \o U32LeBytes(self.max_seq_len)
          \o U32LeBytes(self.kv_dim) \o U32LeBytes(self.pos)
          \o U16LeBytes(self.value_cache) \o U16LeBytes(self.key_cache)

\* the bytes that a complete save writes, in the order of its write_all calls
SaveBytes(self) ==
    Magic \o U32LeBytes(self.n_layers) \o U32LeBytes(self.max_seq_len)
          \o U32LeBytes(self.kv_dim) \o U32LeBytes(self.pos)
          \o U16LeBytes(self.key_cache) \o U16LeBytes(self.value_cache)

NoFile == [exists |-> FALSE, bytes |-> <<>>]

FileOf(bytes) == [exists |-> TRUE, bytes |-> bytes]

NoCache == [key_cache |-> <<>>, value_cache |-> <<>>, n_layers |-> 0,
            max_seq_len |-> 0, kv_dim |-> 0, pos |-> 0]

LoadErr(kind, nread) == [state |-> "err", kind |-> kind, nread |-> nread, cache |-> NoCache]

LoadOk(nread, cache) == [state |-> "ok", kind |-> "", nread |-> nread, cache |-> cache]

\* file.read_exact of len bytes at offset at: whether they are all there
CanRead(bytes, at, len) == at + len <= Len(bytes)

\* load_from reading the four header fields before it looks at the magic
LoadFrom_MagicLast(file) ==
    LET b == file.bytes
    IN  IF ~file.exists THEN LoadErr("NotFound", 0)
        ELSE IF ~CanRead(b, 0, 20) THEN LoadErr("UnexpectedEof", 0)
        ELSE IF SubSeq(b, 1, 4) # Magic THEN LoadErr("InvalidData", 20)
        ELSE
        LET n_layers    == U32FromLe(SubSeq(b, 5, 8))
            max_seq_len == U32FromLe(SubSeq(b, 9, 12))
            kv_dim      == U32FromLe(SubSeq(b, 13, 16))
            pos         == U32FromLe(SubSeq(b, 17, 20))
            total       == n_layers * max_seq_len * kv_dim
        IN  IF ~CanRead(b, 20, total * 2) THEN LoadErr("UnexpectedEof", 20)
            ELSE IF ~CanRead(b, 20 + total * 2, total * 2)
                 THEN LoadErr("UnexpectedEof", 20 + total * 2)
            ELSE LoadOk(20 + total * 4,
                        [key_cache   |-> U16FromLe(SubSeq(b, 21, 20 + total * 2)),
                         value_cache |-> U16FromLe(SubSeq(b, 21 + total * 2, 20 + total * 4)),
                         n_layers |-> n_layers, max_seq_len |-> max_seq_len,
                         kv_dim |-> kv_dim, pos |-> pos])

\* load_from taking the bytes that are there for the value store and zero for
\* the rest
LoadFrom_ShortValues(file) ==
    LET b == file.bytes
    IN  IF ~file.exists THEN LoadErr("NotFound", 0)
        ELSE IF ~CanRead(b, 0, 4) THEN LoadErr("UnexpectedEof", 0)
        ELSE IF SubSeq(b, 1, 4) # Magic THEN LoadErr("InvalidData", 4)
        ELSE IF ~CanRead(b, 4, 4) THEN LoadErr("UnexpectedEof", 4)
        ELSE IF ~CanRead(b, 8, 4) THEN LoadErr("UnexpectedEof", 8)
        ELSE IF ~CanRead(b, 12, 4) THEN LoadErr("UnexpectedEof", 12)
        ELSE IF ~CanRead(b, 16, 4) THEN LoadErr("UnexpectedEof", 16)
        ELSE
        LET n_layers    == U32FromLe(SubSeq(b, 5, 8))
            max_seq_len == U32FromLe(SubSeq(b, 9, 12))
            kv_dim      == U32FromLe(SubSeq(b, 13, 16))
            pos         == U32FromLe(SubSeq(b, 17, 20))
            total       == n_layers * max_seq_len * kv_dim
            padded      == b \o Const(total * 2, 0)
        IN  IF ~CanRead(b, 20, total * 2) THEN LoadErr("UnexpectedEof", 20)
            ELSE LoadOk(Min(Len(b), 20 + total * 4),
                        [key_cache   |-> U16FromLe(SubSeq(b, 21, 20 + total * 2)),
                         value_cache |-> U16FromLe(SubSeq(padded, 21 + total * 2,
                                                          20 + total * 4)),
                         n_layers |-> n_layers, max_seq_len |-> max_seq_len,
                         kv_dim |-> kv_dim, pos |-> pos])

\* Fp16KvCache::load_from: the result, and the number of bytes of the file that
\* its read_exact calls have delivered
LoadFrom(file) ==
    LET b == file.bytes
    IN  IF ~file.exists THEN LoadErr("NotFound", 0)
        ELSE IF ~CanRead(b, 0, 4) THEN LoadErr("UnexpectedEof", 0)
        ELSE IF SubSeq(b, 1, 4) # Magic THEN LoadErr("InvalidData", 4)
        ELSE IF ~CanRead(b, 4, 4) THEN LoadErr("UnexpectedEof", 4)
        ELSE IF ~CanRead(b, 8, 4) THEN LoadErr("UnexpectedEof", 8)
        ELSE IF ~CanRead(b, 12, 4) THEN LoadErr("UnexpectedEof", 12)
        ELSE IF ~CanRead(b, 16, 4) THEN LoadErr("UnexpectedEof", 16)
        ELSE
        LET n_layers    == U32FromLe(SubSeq(b, 5, 8))
            max_seq_len == U32FromLe(SubSeq(b, 9, 12))
            kv_dim      == U32FromLe(SubSeq(b, 13, 16))
            pos         == U32FromLe(SubSeq(b, 17, 20))
            total       == n_layers * max_seq_len * kv_dim
        IN  IF ~CanRead(b, 20, total * 2) THEN LoadErr("UnexpectedEof", 20)
            ELSE IF ~CanRead(b, 20 + total * 2, total * 2)
                 THEN LoadErr("UnexpectedEof", 20 + total * 2)
            ELSE LoadOk(20 + total * 4,
                        [key_cache   |-> U16FromLe(SubSeq(b, 21, 20 + total * 2)),
                         value_cache |-> U16FromLe(SubSeq(b, 21 + total * 2, 20 + total * 4)),
                         n_layers |-> n_layers, max_seq_len |-> max_seq_len,
                         kv_dim |-> kv_dim, pos |-> pos])

--------------------------------------------------------------------------
(* The cache as a process: the caller's calls, in any order.              *)

\* constructor arguments (n_layers, max_seq_len, n_kv_heads, head_dim)
CacheArgs == {<<1, 1, 1, 2>>, <<2, 2, 1, 1>>, <<2, 1, 2, 1>>}

\* the same for the caches that are saved and loaded
PersistArgs == {<<1, 1, 1, 1>>, <<2, 1, 1, 1>>}

\* 1.0009766 (0x3F802001), whose low mantissa bits the half drops, and -3.0
F32A == [s |-> 0, e |-> 127, m |-> 8193]

F32B == [s |-> 1, e |-> 128, m |-> 4194304]

\* the vectors that the caller writes
CacheData(kv_dim) ==
    IF kv_dim = 1 THEN {<<F32A>>, <<F32B>>} ELSE {<<F32A, F32B>>, <<F32B, F32A>>}

\* the vectors given to store_key / store_value: those, one longer than kv_dim
\* and, for kv_dim 2, one shorter
StoreData(kv_dim) ==
    CacheData(kv_dim) \cup
    (IF kv_dim = 1 THEN {<<F32B, F32A>>} ELSE {<<F32A, F32B, F32A>>, <<F32B>>})

\* the vector that a slot holds after data was stored in it: the first kv_dim
\* elements of data; none when data is shorter and the slot is written in part
Stored(data, kv_dim) == IF Len(data) >= kv_dim THEN SubSeq(data, 1, kv_dim) ELSE <<>>

\* what the caller's output buffer holds before load_keys / load_values: NaN,
\* in a buffer with room for the longest seq_len asked for
OutputBefore(self) ==
    Const((self.max_seq_len + 1) * self.kv_dim, [s |-> 0, e |-> 255, m |-> 4194304])

\* what is at the path before the first save
FilesBefore ==
    {NoFile, FileOf(<<>>), FileOf(<<66, 67, 75>>), FileOf(<<66, 67, 75, 87>>),
     FileOf(<<88, 67, 75, 86, 1, 0, 0, 0, 1, 0, 0, 0, 1, 0, 0, 0, 0, 0, 0, 0,
              1, 60, 0, 194>>)}

Layers == 0..(k_self.n_layers - 1)

\* positions given to the write accessors: those in range and the one after
Positions == 0..k_self.max_seq_len

\* seq_len given to the read accessors
SeqLens == 0..(k_self.max_seq_len + 1)

\* the slots (layer, pos) in range
Slots(self) == (0..(self.n_layers - 1)) \X (0..(self.max_seq_len - 1))

\* nothing written since construction or reset
NoMarks(self) == [k |-> [sl \in Slots(self) |-> <<>>], v |-> [sl \in Slots(self) |-> <<>>]]

\* the vector last written into each slot: a write at an in-range (layer, pos)
\* records its vector; a write at (layer, pos) with pos >= max_seq_len that
\* does not panic lands in the slot of a later layer, which then holds no
\* vector written at its own (layer, pos)
Marked(marks, self, layer, pos, v) ==
    IF pos < self.max_seq_len
    THEN [marks EXCEPT ![<<layer, pos>>] = v]
    ELSE [marks EXCEPT ![<<layer + (pos \div self.max_seq_len),
                           pos % self.max_seq_len>>] = <<>>]

NoLoad == [state |-> "none", kind |-> "", nread |-> 0, cache |-> NoCache]

NoSnapshot == [valid |-> FALSE, cache |-> NoCache]

InitCacheWith(args, files) ==
    /\ k_kind \in {"f32", "fp16"}
    /\ k_args \in args
    /\ k_self = IF k_kind = "f32"
                THEN KvCacheNew(k_args[1], k_args[2], k_args[3], k_args[4])
                ELSE Fp16KvCacheNew(k_args[1], k_args[2], k_args[3], k_args[4])
    /\ k_status = "ok"
    /\ k_last = "new"
    /\ k_at = <<>>
    /\ k_out = <<>>
    /\ k_adv = 0
    /\ k_mark = NoMarks(k_self)
    /\ k_ops = 0
    /\ f_file \in (IF k_kind = "fp16" THEN files ELSE {NoFile})
    /\ f_saved = NoSnapshot
    /\ s_res = "none"
    /\ l_res = NoLoad

InitCache == InitCacheWith(CacheArgs, {NoFile})

InitPersist == InitCacheWith(PersistArgs, FilesBefore)

\* the caller may make another call
MayCall == k_status = "ok" /\ k_ops < MaxOps

\* KvCache::key_at_mut(layer, pos), and the caller filling the slice with v
KvKeyAtMut ==
    /\ MayCall /\ k_kind = "f32"
    /\ \E layer \in Layers, pos \in Positions, v \in CacheData(k_self.kv_dim) :
          LET r == SliceAtMut(k_self.key_cache, k_self, layer, pos, v)
          IN  /\ k_self' = [k_self EXCEPT !.key_cache = r.arr]
              /\ k_status' = IF r.panic THEN "panic" ELSE "ok"
              /\ k_at' = <<layer, pos, v>>
              /\ k_mark' = IF r.panic THEN k_mark
                           ELSE [k_mark EXCEPT !.k = Marked(@, k_self, layer, pos, v)]
    /\ k_last' = "key_at_mut"
    /\ k_out' = <<>>
    /\ k_ops' = k_ops + 1
    /\ UNCHANGED <<k_kind, k_args, k_adv, f_file, f_saved, s_res, l_res>>
    /\ UNCHANGED notStore

\* KvCache::value_at_mut(layer, pos), and the caller filling the slice with v
KvValueAtMut ==
    /\ MayCall /\ k_kind = "f32"
    /\ \E layer \in Layers, pos \in Positions, v \in CacheData(k_self.kv_dim) :
          LET r == SliceAtMut(k_self.value_cache, k_self, layer, pos, v)
          IN  /\ k_self' = [k_self EXCEPT !.value_cache = r.arr]
              /\ k_status' = IF r.panic THEN "panic" ELSE "ok"
              /\ k_at' = <<layer, pos, v>>
              /\ k_mark' = IF r.panic THEN k_mark
                           ELSE [k_mark EXCEPT !.v = Marked(@, k_self, layer, pos, v)]
    /\ k_last' = "value_at_mut"
    /\ k_out' = <<>>
    /\ k_ops' = k_ops + 1
    /\ UNCHANGED <<k_kind, k_args, k_adv, f_file, f_saved, s_res, l_res>>
    /\ UNCHANGED notStore

\* KvCache::keys(layer, seq_len)
KvKeys ==
    /\ MayCall /\ k_kind = "f32"
    /\ \E layer \in Layers, seq_len \in SeqLens :
          LET r == SliceOf(k_self.key_cache, k_self, layer, seq_len)
          IN  /\ k_out' = r.out
              /\ k_status' = IF r.panic THEN "panic" ELSE "ok"
              /\ k_at' = <<layer, seq_len>>
    /\ k_last' = "keys"
    /\ k_ops' = k_ops + 1
    /\ UNCHANGED <<k_kind, k_args, k_self, k_adv, k_mark, f_file, f_saved, s_res, l_res>>
    /\ UNCHANGED notStore

\* KvCache::values(layer, seq_len)
KvValues ==
    /\ MayCall /\ k_kind = "f32"
    /\ \E layer \in Layers, seq_len \in SeqLens :
          LET r == SliceOf(k_self.value_cache, k_self, layer, seq_len)
          IN  /\ k_out' = r.out
              /\ k_status' = IF r.panic THEN "panic" ELSE "ok"
              /\ k_at' = <<layer, seq_len>>
    /\ k_last' = "values"
    /\ k_ops' = k_ops + 1
    /\ UNCHANGED <<k_kind, k_args, k_self, k_adv, k_mark, f_file, f_saved, s_res, l_res>>
    /\ UNCHANGED notStore

\* Fp16KvCache::store_key(layer, pos, data)
Fp16StoreKey ==
    /\ MayCall /\ k_kind = "fp16"
    /\ \E layer \in Layers, pos \in Positions, data \in StoreData(k_self.kv_dim) :
          LET r == StoreHalves(k_self.key_cache, k_self, layer, pos, data)
          IN  /\ k_self' = [k_self EXCEPT !.key_cache = r.arr]
              /\ k_status' = IF r.panic THEN "panic" ELSE "ok"
              /\ k_at' = <<layer, pos, data>>
              /\ k_mark' = IF r.panic THEN k_mark
                           ELSE [k_mark EXCEPT !.k =
                                    Marked(@, k_self, layer, pos,
                                           Stored(data, k_self.kv_dim))]
    /\ k_last' = "store_key"
    /\ k_out' = <<>>
    /\ k_ops' = k_ops + 1
    /\ UNCHANGED <<k_kind, k_args, k_adv, f_file, f_saved, s_res, l_res>>
    /\ UNCHANGED notStore

\* Fp16KvCache::store_value(layer, pos, data)
Fp16StoreValue ==
    /\ MayCall /\ k_kind = "fp16"
    /\ \E layer \in Layers, pos \in Positions, data \in StoreData(k_self.kv_dim) :
          LET r == StoreHalves(k_self.value_cache, k_self, layer, pos, data)
          IN  /\ k_self' = [k_self EXCEPT !.value_cache = r.arr]
              /\ k_status' = IF r.panic THEN "panic" ELSE "ok"
              /\ k_at' = <<layer, pos, data>>
              /\ k_mark' = IF r.panic THEN k_mark
                           ELSE [k_mark EXCEPT !.v =
                                    Marked(@, k_self, layer, pos,
                                           Stored(data, k_self.kv_dim))]
    /\ k_last' = "store_value"
    /\ k_out' = <<>>
    /\ k_ops' = k_ops + 1
    /\ UNCHANGED <<k_kind, k_args, k_adv, f_file, f_saved, s_res, l_res>>
    /\ UNCHANGED notStore

\* Fp16KvCache::load_keys(layer, seq_len, output)
Fp16LoadKeys ==
    /\ MayCall /\ k_kind = "fp16"
    /\ \E layer \in Layers, seq_len \in SeqLens :
          LET r == LoadHalves(k_self.key_cache, k_self, layer, seq_len,
                              OutputBefore(k_self))
          IN  /\ k_out' = r.out
              /\ k_status' = IF r.panic THEN "panic" ELSE "ok"
              /\ k_at' = <<layer, seq_len>>
    /\ k_last' = "load_keys"
    /\ k_ops' = k_ops + 1
    /\ UNCHANGED <<k_kind, k_args, k_self, k_adv, k_mark, f_file, f_saved, s_res, l_res>>
    /\ UNCHANGED notStore

\* Fp16KvCache::load_values(layer, seq_len, output)
Fp16LoadValues ==
    /\ MayCall /\ k_kind = "fp16"
    /\ \E layer \in Layers, seq_len \in SeqLens :
          LET r == LoadHalves(k_self.value_cache, k_self, layer, seq_len,
                              OutputBefore(k_self))
          IN  /\ k_out' = r.out
              /\ k_status' = IF r.panic THEN "panic" ELSE "ok"
              /\ k_at' = <<layer, seq_len>>
    /\ k_last' = "load_values"
    /\ k_ops' = k_ops + 1
    /\ UNCHANGED <<k_kind, k_args, k_self, k_adv, k_mark, f_file, f_saved, s_res, l_res>>
    /\ UNCHANGED notStore

\* KvCache::advance, Fp16KvCache::advance
Advance ==
    /\ MayCall
    /\ k_self' = AdvancePos(k_self)
    /\ k_adv' = k_adv + 1
    /\ k_last' = "advance"
    /\ k_at' = <<>>
    /\ k_out' = <<>>
    /\ k_ops' = k_ops + 1
    /\ UNCHANGED <<k_kind, k_args, k_status, k_mark, f_file, f_saved, s_res, l_res>>
    /\ UNCHANGED notStore

\* KvCache::reset, Fp16KvCache::reset
Reset ==
    /\ MayCall
    /\ k_self' = IF k_kind = "f32" THEN KvReset(k_self) ELSE Fp16Reset(k_self)
    /\ k_adv' = 0
    /\ k_mark' = NoMarks(k_self)
    /\ k_last' = "reset"
    /\ k_at' = <<>>
    /\ k_out' = <<>>
    /\ k_ops' = k_ops + 1
    /\ UNCHANGED <<k_kind, k_args, k_status, f_file, f_saved, s_res, l_res>>
    /\ UNCHANGED notStore

\* KvCache::memory_usage, Fp16KvCache::memory_usage
MemoryUsage ==
    /\ MayCall
    /\ k_out' = IF k_kind = "f32" THEN <<KvMemoryUsage(k_self)>>
                                  ELSE <<Fp16MemoryUsage(k_self)>>
    /\ k_last' = "memory_usage"
    /\ k_at' = <<>>
    /\ k_ops' = k_ops + 1
    /\ UNCHANGED <<k_kind, k_args, k_self, k_status, k_adv, k_mark, f_file, f_saved,
                   s_res, l_res>>
    /\ UNCHANGED notStore

\* Fp16KvCache::save when File::create fails: the path keeps what it held
SaveCreateFails ==
    /\ MayCall /\ k_kind = "fp16"
    /\ s_res' = "create failed"
    /\ k_last' = "save"
    /\ k_at' = <<>>
    /\ k_out' = <<>>
    /\ k_ops' = k_ops + 1
    /\ UNCHANGED <<k_kind, k_args, k_self, k_status, k_adv, k_mark, f_file, f_saved,
                   l_res>>
    /\ UNCHANGED notStore

\* Fp16KvCache::save stopped after File::create, by a failing write or by a
\* crash, with n bytes in the file
SaveInterrupted ==
    /\ MayCall /\ k_kind = "fp16"
    /\ LET bytes == SaveBytes(k_self)
       IN  \E n \in 0..(Len(bytes) - 1) : f_file' = FileOf(SubSeq(bytes, 1, n))
    /\ s_res' = "write failed"
    /\ k_last' = "save"
    /\ k_at' = <<>>
    /\ k_out' = <<>>
    /\ k_ops' = k_ops + 1
    /\ UNCHANGED <<k_kind, k_args, k_self, k_status, k_adv, k_mark, f_saved, l_res>>
    /\ UNCHANGED notStore

\* save making the call to advance that belongs to the caller
SaveCompletes_Advances ==
    /\ MayCall /\ k_kind = "fp16"
    /\ f_file' = FileOf(SaveBytes(k_self))
    /\ f_saved' = [valid |-> TRUE, cache |-> k_self]
    /\ k_self' = AdvancePos(k_self)
    /\ s_res' = "ok"
    /\ k_last' = "save"
    /\ k_at' = <<>>
    /\ k_out' = <<>>
    /\ k_ops' = k_ops + 1
    /\ UNCHANGED <<k_kind, k_args, k_status, k_adv, k_mark, l_res>>
    /\ UNCHANGED notStore

\* Fp16KvCache::save returning Ok(())
SaveCompletes ==
    /\ MayCall /\ k_kind = "fp16"
    /\ f_file' = FileOf(SaveBytes(k_self))
    /\ f_saved' = [valid |-> TRUE, cache |-> k_self]
    /\ s_res' = "ok"
    /\ k_last' = "save"
    /\ k_at' = <<>>
    /\ k_out' = <<>>
    /\ k_ops' = k_ops + 1
    /\ UNCHANGED <<k_kind, k_args, k_self, k_status, k_adv, k_mark, l_res>>
    /\ UNCHANGED notStore

\* Fp16KvCache::load_from(path)
Load ==
    /\ MayCall /\ k_kind = "fp16"
    /\ l_res' = LoadFrom(f_file)
    /\ k_last' = "load_from"
    /\ k_at' = <<>>
    /\ k_out' = <<>>
    /\ k_ops' = k_ops + 1
    /\ UNCHANGED <<k_kind, k_args, k_self, k_status, k_adv, k_mark, f_file, f_saved,
                   s_res>>
    /\ UNCHANGED notStore

NextCache ==
    \/ KvKeyAtMut \/ KvValueAtMut \/ KvKeys \/ KvValues
    \/ Fp16StoreKey \/ Fp16StoreValue \/ Fp16LoadKeys \/ Fp16LoadValues
    \/ Advance \/ Reset \/ MemoryUsage

NextPersist ==
    \/ NextCache
    \/ SaveCreateFails \/ SaveInterrupted \/ SaveCompletes \/ Load

\* no cache under consideration
IdleStore ==
    /\ k_kind = "none"
    /\ k_args = <<>>
    /\ k_self = NoCache
    /\ k_status = "none"
    /\ k_last = "none"
    /\ k_at = <<>>
    /\ k_out = <<>>
    /\ k_adv = 0
    /\ k_mark = <<>>
    /\ k_ops = 0
    /\ f_file = NoFile
    /\ f_saved = NoSnapshot
    /\ s_res = "none"
    /\ l_res = NoLoad

--------------------------------------------------------------------------
(* kv_cache.rs: RopeTable.  The table holds f32 values of the reduced     *)
(* format of the attention kernel.  cos and sin are computed from their   *)
(* power series at four times the precision of the format and rounded to  *)
(* it, for angles up to 4 in magnitude (the angles pos * freq of the      *)
(* tables built here); cos(0) = 1 and sin(0) = 0 exactly, and the cosine  *)
(* or sine of a NaN or an infinity is NaN, as in libm.                    *)

\* units of the series: a quarter of a unit of the format
TrigUnit == 4 * ONE

\* 1 - x2/((2k-1)(2k)) * (1 - x2/((2k+1)(2k+2)) * ...), eight factors deep
RECURSIVE CosSeries(_, _)
CosSeries(x2, k) ==
    IF k > 8 THEN TrigUnit
    ELSE TrigUnit - RoundDiv(x2 * CosSeries(x2, k + 1), (2 * k - 1) * (2 * k) * TrigUnit)

\* 1 - x2/((2k)(2k+1)) * (1 - x2/((2k+2)(2k+3)) * ...)
RECURSIVE SinSeries(_, _)
SinSeries(x2, k) ==
    IF k > 8 THEN TrigUnit
    ELSE TrigUnit - RoundDiv(x2 * SinSeries(x2, k + 1), (2 * k) * (2 * k + 1) * TrigUnit)

\* the square of a finite angle, in units of the series
AngleSquared(x) == RoundDiv((4 * x) * (4 * x), TrigUnit)

\* f32::cos
FCos(x) ==
    IF IsNaN(x) \/ IsInf(x) THEN NaN
    ELSE RoundDiv(CosSeries(AngleSquared(x), 1), 4)

\* f32::sin
FSin(x) ==
    IF IsNaN(x) \/ IsInf(x) THEN NaN
    ELSE RoundDiv(RoundDiv(4 * x * SinSeries(AngleSquared(x), 1), TrigUnit), 4)

\* f32::sqrt of a finite value >= 0, rounded to nearest
FSqrt(x) ==
    LET t == x * ONE
        r == ISqrtIn(t, 0, MaxFinite)
    IN  IF t - r * r <= (r + 1) * (r + 1) - t THEN r ELSE r + 1

\* f32::powf for the exponents 0 and 1/2, the values of 2i/head_dim for
\* head_dim 2 and 4: x^0 is 1 for every x, NaN included
FPowf(x, y) ==
    IF y = 0 THEN ONE
    ELSE IF IsNaN(x) THEN NaN
    ELSE IF IsInf(x) THEN PInf
    ELSE IF x < 0 THEN NaN
    ELSE FSqrt(x)

\* let freq = 1.0 / rope_theta.powf(2.0 * i as f32 / head_dim as f32)
RopeFreq(rope_theta, i, head_dim) ==
    FDiv(ONE, FPowf(rope_theta, FDiv(FMul(2 * ONE, i * ONE), head_dim * ONE)))

\* let angle = pos as f32 * freq
RopeAngle(rope_theta, pos, i, head_dim) ==
    FMul(pos * ONE, RopeFreq(rope_theta, i, head_dim))

\* RopeTable::new with the positions counted from 1
RopeTableNew_FromOne(max_seq_len, head_dim, rope_theta) ==
    LET half_dim == head_dim \div 2
        total    == max_seq_len * half_dim
    IN  [cos_table |-> [j \in 1..total |->
                          FCos(RopeAngle(rope_theta, (j - 1) \div half_dim + 1,
                                         (j - 1) % half_dim, head_dim))],
         sin_table |-> [j \in 1..total |->
                          FSin(RopeAngle(rope_theta, (j - 1) \div half_dim + 1,
                                         (j - 1) % half_dim, head_dim))],
         max_seq_len |-> max_seq_len,
         half_dim |-> half_dim]

\* RopeTable::new: entry pos * half_dim + i holds the cosine and the sine of
\* the angle of (pos, i)
RopeTableNew(max_seq_len, head_dim, rope_theta) ==
    LET half_dim == head_dim \div 2
        total    == max_seq_len * half_dim
    IN  [cos_table |-> [j \in 1..total |->
                          FCos(RopeAngle(rope_theta, (j - 1) \div half_dim,
                                         (j - 1) % half_dim, head_dim))],
         sin_table |-> [j \in 1..total |->
                          FSin(RopeAngle(rope_theta, (j - 1) \div half_dim,
                                         (j - 1) % half_dim, head_dim))],
         max_seq_len |-> max_seq_len,
         half_dim |-> half_dim]

\* the loop of apply from slot i on: the pair (vec[i], vec[i + half_dim]) is
\* rotated by the table's entry; an index beyond the table or the vector panics
RECURSIVE RopeRotateFrom(_, _, _, _, _)
RopeRotateFrom(self, vec, table_offset, half_dim, i) ==
    IF i = half_dim THEN [vec |-> vec, panic |-> FALSE]
    ELSE IF table_offset + i >= Len(self.cos_table) \/ i + half_dim >= Len(vec)
    THEN [vec |-> vec, panic |-> TRUE]
    ELSE LET cos == self.cos_table[table_offset + i + 1]
             sin == self.sin_table[table_offset + i + 1]
             x0  == vec[i + 1]
             x1  == vec[i + half_dim + 1]
         IN  RopeRotateFrom(self,
                 [vec EXCEPT ![i + 1] = FSub(FMul(x0, cos), FMul(x1, sin)),
                             ![i + half_dim + 1] = FAdd(FMul(x0, sin), FMul(x1, cos))],
                 table_offset, half_dim, i + 1)

\* RopeTable::apply rotating also at positions beyond the table
RopeApply_NoRangeCheck(self, vec, pos, head_dim) ==
    RopeRotateFrom(self, vec, pos * self.half_dim, head_dim \div 2, 0)

\* RopeTable::apply
RopeApply(self, vec, pos, head_dim) ==
    IF pos >= self.max_seq_len THEN [vec |-> vec, panic |-> FALSE]
    ELSE RopeRotateFrom(self, vec, pos * self.half_dim, head_dim \div 2, 0)

--------------------------------------------------------------------------
(* RopeTable as a process: new, then one call of apply or of              *)
(* apply_multi_head, the loop of which runs head by head.                 *)

\* rope_theta: 1, 4, and values for which some frequency is not finite
RopeThetas == {ONE, 4 * ONE, 0, 0 - ONE, PInf, NaN}

RopeHeadDims == {2, 4}

\* components of the vectors given to apply
RopeValues == {0, ONE, 0 - 2 * ONE, PInf}

\* the vectors of one head: two components taken freely, the others 1 and 3
RopeHeadVecs(head_dim) ==
    {[j \in 1..head_dim |->
         IF j = 1 THEN a ELSE IF j = head_dim THEN b ELSE IF j = 2 THEN ONE ELSE 3 * ONE] :
       a \in RopeValues, b \in RopeValues}

\* the vectors of n_heads heads: the first head's, and the same negated for the others
RopeVecs(n_heads, head_dim) ==
    {[j \in 1..(n_heads * head_dim) |->
         IF j <= head_dim THEN v[j] ELSE FNeg(v[((j - 1) % head_dim) + 1])] :
       v \in RopeHeadVecs(head_dim)}

NoTable == [cos_table |-> <<>>, sin_table |-> <<>>, max_seq_len |-> 0, half_dim |-> 0]

InitRope ==
    /\ r_pc = "new"
    /\ r_fn \in {"apply", "apply_multi_head"}
    /\ r_args \in (0..MaxSeqLen) \X RopeHeadDims \X RopeThetas
    /\ r_self = NoTable
    /\ r_nh \in (IF r_fn = "apply" THEN {1} ELSE {1, 2})
    /\ r_pos \in 0..(r_args[1] + 1)
    /\ r_in \in RopeVecs(r_nh, r_args[2])
    /\ r_vec = r_in
    /\ r_h = 0

\* RopeTable::new(max_seq_len, head_dim, rope_theta)
RopeNew ==
    /\ r_pc = "new"
    /\ r_self' = RopeTableNew(r_args[1], r_args[2], r_args[3])
    /\ r_pc' = "call"
    /\ UNCHANGED <<r_fn, r_args, r_nh, r_pos, r_in, r_vec, r_h>>
    /\ UNCHANGED notRope

\* table.apply(&mut vec, pos, head_dim)
RopeApplyCall ==
    /\ r_pc = "call" /\ r_fn = "apply"
    /\ LET r == RopeApply(r_self, r_vec, r_pos, r_args[2])
       IN  /\ r_vec' = r.vec
           /\ r_pc' = IF r.panic THEN "panic" ELSE "done"
    /\ UNCHANGED <<r_fn, r_args, r_self, r_nh, r_pos, r_in, r_h>>
    /\ UNCHANGED notRope

\* apply_multi_head, one iteration of for h in 0..n_heads: apply on
\* vec[h * head_dim .. (h + 1) * head_dim]; the slice panics beyond the vector
RopeHead ==
    /\ r_pc = "call" /\ r_fn = "apply_multi_head"
    /\ r_h < r_nh
    /\ LET start == r_h * r_args[2]
           end   == start + r_args[2]
       IN  IF end > Len(r_vec)
           THEN r_pc' = "panic" /\ UNCHANGED r_vec
           ELSE LET r == RopeApply(r_self, Slice(r_vec, start, r_args[2]), r_pos, r_args[2])
                IN  /\ r_vec' = WriteSlice(r_vec, start, r.vec)
                    /\ r_pc' = IF r.panic THEN "panic" ELSE "call"
    /\ r_h' = r_h + 1
    /\ UNCHANGED <<r_fn, r_args, r_self, r_nh, r_pos, r_in>>
    /\ UNCHANGED notRope

\* apply_multi_head returns after the last head
RopeReturn ==
    /\ r_pc = "call" /\ r_fn = "apply_multi_head"
    /\ r_h = r_nh
    /\ r_pc' = "done"
    /\ UNCHANGED <<r_fn, r_args, r_self, r_nh, r_pos, r_in, r_vec, r_h>>
    /\ UNCHANGED notRope

NextRope == RopeNew \/ RopeApplyCall \/ RopeHead \/ RopeReturn

\* no table under consideration
IdleRope ==
    /\ r_pc = "none"
    /\ r_fn = "none"
    /\ r_args = <<>>
    /\ r_self = NoTable
    /\ r_nh = 0
    /\ r_pos = 0
    /\ r_in = <<>>
    /\ r_vec = <<>>
    /\ r_h = 0

--------------------------------------------------------------------------
(* The platform database: table tenants and its pairing codes             *)
(* (bizclaw-platform/src/db.rs)                                           *)

\* the columns of a row of tenants that the pairing operations read or write;
\* pairing_code is <<>> for NULL and <<code>> otherwise
TenantRow(id, slug, port, pairing_code) ==
    [id |-> id, slug |-> slug, port |-> port, pairing_code |-> pairing_code]

DbIds == {"id1", "id2"}

DbSlugs == {"pair", "bot"}

DbPorts == {10001, 10002}

\* what rand_code() may give
DbCodes == {100000, 100001}

\* Result<..>: err, or the tenant (Option) and the code that the call returns
DbErr == [err |-> TRUE, tenant |-> <<>>, code |-> <<>>]

DbOk(tenant, code) == [err |-> FALSE, tenant |-> tenant, code |-> code]

\* SELECT ... FROM tenants WHERE id=?1
get_tenant(rows, id) ==
    LET found == {t \in rows : t.id = id}
    IN  IF found = {} THEN DbErr ELSE DbOk(<<CHOOSE t \in found : TRUE>>, <<>>)

\* create_tenant: INSERT, refused when the slug or the port is taken (UNIQUE)
\* or when the write fails; then get_tenant
create_tenant(rows, id, slug, port, code, written) ==
    IF ~written \/ \E t \in rows : t.id = id \/ t.slug = slug \/ t.port = port
    THEN [rows |-> rows, ret |-> DbErr]
    ELSE LET new == rows \cup {TenantRow(id, slug, port, <<code>>)}
         IN  [rows |-> new, ret |-> get_tenant(new, id)]

\* delete_tenant: DELETE FROM tenants WHERE id=?1
delete_tenant(rows, id, written) ==
    IF ~written THEN [rows |-> rows, ret |-> DbErr]
    ELSE [rows |-> {t \in rows : t.id # id}, ret |-> DbOk(<<>>, <<>>)]

\* UPDATE tenants SET pairing_code=... WHERE id=?
SetPairingCode(rows, id, pairing_code) ==
    {IF t.id = id THEN [t EXCEPT !.pairing_code = pairing_code] ELSE t : t \in rows}

\* reset_pairing_code: a new code stored on the row of id, and returned
reset_pairing_code(rows, id, code, written) ==
    IF ~written THEN [rows |-> rows, ret |-> DbErr]
    ELSE [rows |-> SetPairingCode(rows, id, <<code>>), ret |-> DbOk(<<>>, <<code>>)]

\* validate_pairing: the row of slug with this code; the UPDATE that clears
\* the code, its result dropped by .ok(); then get_tenant.  No row (or a
\* failed SELECT) is Ok(None).
validate_pairing(rows, slug, code, written) ==
    LET found == {t \in rows : t.slug = slug /\ t.pairing_code = <<code>>}
    IN  IF found = {} THEN [rows |-> rows, ret |-> DbOk(<<>>, <<>>)]
        ELSE LET id  == (CHOOSE t \in found : TRUE).id
                 new == IF written THEN SetPairingCode(rows, id, <<>>) ELSE rows
             IN  [rows |-> new, ret |-> get_tenant(new, id)]

\* PlatformDb::open on a new database
InitDb ==
    /\ d_rows = {}
    /\ d_ops = 0
    /\ d_last = "open"
    /\ d_args = <<>>
    /\ d_ret = DbOk(<<>>, <<>>)
    /\ d_used = {}

\* the slug of the row of id, as a set
SlugOf(rows, id) == {t.slug : t \in {u \in rows : u.id = id}}

DbCreateTenant ==
    /\ d_ops < MaxDbOps
    /\ \E id \in DbIds, slug \in DbSlugs, port \in DbPorts, code \in DbCodes,
          written \in BOOLEAN :
          /\ \A t \in d_rows : t.id # id
          /\ LET r == create_tenant(d_rows, id, slug, port, code, written)
             IN  /\ d_rows' = r.rows
                 /\ d_ret' = r.ret
          /\ d_args' = <<slug, port>>
    /\ d_ops' = d_ops + 1
    /\ d_last' = "create_tenant"
    /\ UNCHANGED d_used
    /\ UNCHANGED notDb

DbDeleteTenant ==
    /\ d_ops < MaxDbOps
    /\ \E id \in DbIds, written \in BOOLEAN :
          /\ LET r == delete_tenant(d_rows, id, written)
             IN  /\ d_rows' = r.rows
                 /\ d_ret' = r.ret
          /\ d_args' = <<id>>
    /\ d_ops' = d_ops + 1
    /\ d_last' = "delete_tenant"
    /\ UNCHANGED d_used
    /\ UNCHANGED notDb

DbResetPairingCode ==
    /\ d_ops < MaxDbOps
    /\ \E id \in DbIds, code \in DbCodes, written \in BOOLEAN :
          /\ LET r == reset_pairing_code(d_rows, id, code, written)
             IN  /\ d_rows' = r.rows
                 /\ d_ret' = r.ret
                 /\ d_used' = IF r.ret.err THEN d_used ELSE d_used \ SlugOf(d_rows, id)
          /\ d_args' = <<id>>
    /\ d_ops' = d_ops + 1
    /\ d_last' = "reset_pairing_code"
    /\ UNCHANGED notDb

DbValidatePairing ==
    /\ d_ops < MaxDbOps
    /\ \E slug \in DbSlugs, code \in DbCodes, written \in BOOLEAN :
          /\ LET r == validate_pairing(d_rows, slug, code, written)
             IN  /\ d_rows' = r.rows
                 /\ d_ret' = r.ret
                 /\ d_used' = IF r.ret.tenant # <<>> THEN d_used \cup {slug} ELSE d_used
          /\ d_args' = <<slug, code>>
    /\ d_ops' = d_ops + 1
    /\ d_last' = "validate_pairing"
    /\ UNCHANGED notDb

NextDb == DbCreateTenant \/ DbDeleteTenant \/ DbResetPairingCode \/ DbValidatePairing

\* no database under consideration
IdleDb ==
    /\ d_rows = {}
    /\ d_ops = 0
    /\ d_last = "none"
    /\ d_args = <<>>
    /\ d_ret = DbOk(<<>>, <<>>)
    /\ d_used = {}

--------------------------------------------------------------------------
(* The gateway: the pairing code resolved by start, the router and the    *)
(* middleware require_pairing (bizclaw-gateway/src/server.rs).  Strings   *)
(* are sequences of characters; an Option is <<>> or <<value>>.           *)

Whitespace == {" ", "\n"}

\* str::trim
RECURSIVE Trim(_)
Trim(s) ==
    IF s = <<>> THEN s
    ELSE IF Head(s) \in Whitespace THEN Trim(Tail(s))
    ELSE IF s[Len(s)] \in Whitespace THEN Trim(SubSeq(s, 1, Len(s) - 1))
    ELSE s

\* str::split(sep): the pieces between the separators, empty ones included
RECURSIVE Split(_, _)
Split(s, sep) ==
    IF \E i \in 1..Len(s) : s[i] = sep
    THEN LET i == CHOOSE i \in 1..Len(s) : s[i] = sep /\ \A j \in 1..(i - 1) : s[j] # sep
         IN  <<SubSeq(s, 1, i - 1)>> \o Split(SubSeq(s, i + 1, Len(s)), sep)
    ELSE <<s>>

\* str::strip_prefix
StripPrefix(s, prefix) ==
    IF Len(s) >= Len(prefix) /\ SubSeq(s, 1, Len(prefix)) = prefix
    THEN <<SubSeq(s, Len(prefix) + 1, Len(s))>>
    ELSE <<>>

CodeEq == <<"c", "o", "d", "e", "=">>

\* lines 130-143: AppState.pairing_code as start resolves it
ResolvePairingCode(require_pairing, env, file) ==
    IF require_pairing
    THEN IF env # <<>> THEN env
         ELSE IF file # <<>> THEN <<Trim(file[1])>>
         ELSE <<>>
    ELSE <<>>

\* lines 37-40: the header X-Pairing-Code as text, "" when absent or not text
FromHeader(req) ==
    IF req.header # <<>> /\ req.header[1].text # <<>> THEN req.header[1].text[1] ELSE <<>>

\* lines 46-54: some pair of the query is code=<expected>
QueryHasCode(req, expected) ==
    /\ req.query # <<>>
    /\ LET pairs == Split(req.query[1], "&")
       IN  \E i \in 1..Len(pairs) :
              LET code == StripPrefix(pairs[i], CodeEq)
              IN  code # <<>> /\ code[1] = expected

\* require_pairing: TRUE when the request is passed on to the route (next.run)
require_pairing(pairing_code, req) ==
    IF pairing_code = <<>> THEN TRUE
    ELSE LET expected == pairing_code[1]
         IN  \/ FromHeader(req) = expected
             \/ QueryHasCode(req, expected)

\* lines 85-93: the routes behind the middleware, and their handlers
ProtectedRoutes ==
    [path : {"/api/v1/info"}, handler : {"system_info"}]
    \cup [path : {"/api/v1/config"}, handler : {"get_config"}]
    \cup [path : {"/api/v1/config/update"}, handler : {"update_config"}]
    \cup [path : {"/api/v1/config/full"}, handler : {"get_full_config"}]
    \cup [path : {"/api/v1/providers"}, handler : {"list_providers"}]
    \cup [path : {"/api/v1/channels"}, handler : {"list_channels"}]
    \cup [path : {"/api/v1/channels/update"}, handler : {"update_channel"}]
    \cup [path : {"/api/v1/zalo/qr"}, handler : {"zalo_qr_code"}]
    \cup [path : {"/ws"}, handler : {"ws_handler"}]

\* lines 97-100
PublicRoutes ==
    [path : {"/"}, handler : {"dashboard_page"}]
    \cup [path : {"/health"}, handler : {"health_check"}]
    \cup [path : {"/api/v1/verify-pairing"}, handler : {"verify_pairing"}]

PathsOf(routes) == {r.path : r \in routes}

HandlerOf(routes, path) == (CHOOSE r \in routes : r.path = path).handler

\* the router of build_router on a request made with the method of its route:
\* the handler that runs ("none" when the middleware answers) and whether the
\* answer is 401 Unauthorized
Serve(pairing_code, req) ==
    IF req.path \in PathsOf(ProtectedRoutes)
    THEN IF require_pairing(pairing_code, req)
         THEN [handler |-> HandlerOf(ProtectedRoutes, req.path), unauthorized |-> FALSE]
         ELSE [handler |-> "none", unauthorized |-> TRUE]
    ELSE IF req.path \in PathsOf(PublicRoutes)
    THEN [handler |-> HandlerOf(PublicRoutes, req.path), unauthorized |-> FALSE]
    ELSE [handler |-> "dashboard_page", unauthorized |-> FALSE]

\* pairing codes, as the operator may set them and as a client may send them
GwCodes == {<<"1", "2">>, <<"1", "3">>, <<>>}

\* contents of the file .pairing_code
GwFiles == {<<"1", "2", "\n">>, <<"\n">>}

\* values of the header X-Pairing-Code: text, or bytes that are not text
GwHeaders == {[text |-> <<c>>] : c \in GwCodes} \cup {[text |-> <<>>]}

GwQueries ==
    {<<>>,
     CodeEq \o <<"1", "2">>,
     CodeEq \o <<"1", "3">>,
     CodeEq,
     <<"x">> \o CodeEq \o <<"1", "2">>,
     <<"x", "=", "1", "&">> \o CodeEq \o <<"1", "2">>,
     CodeEq \o <<"1", "3", "&">> \o CodeEq \o <<"1", "2">>,
     CodeEq \o <<"1", "2", "3">>}

GwPaths ==
    PathsOf(ProtectedRoutes) \cup PathsOf(PublicRoutes)
       \cup {"/dashboard", "/api/v1/config/other"}

NoRequest == [path |-> "", header |-> <<>>, query |-> <<>>]

NoResponse == [handler |-> "none", unauthorized |-> FALSE]

\* before start: the configuration and the environment of the process
InitGw ==
    /\ g_pc = "start"
    /\ g_cfg \in BOOLEAN
    /\ g_env \in {<<>>} \cup {<<c>> : c \in GwCodes}
    /\ g_file \in {<<>>} \cup {<<f>> : f \in GwFiles}
    /\ g_state = <<>>
    /\ g_n = 0
    /\ g_req = NoRequest
    /\ g_resp = NoResponse

\* start: AppState built, the router serving
GwStart ==
    /\ g_pc = "start"
    /\ g_state' = ResolvePairingCode(g_cfg, g_env, g_file)
    /\ g_pc' = "serving"
    /\ UNCHANGED <<g_cfg, g_env, g_file, g_n, g_req, g_resp>>
    /\ UNCHANGED notGw

\* one request served
GwRequest ==
    /\ g_pc = "serving"
    /\ g_n < MaxRequests
    /\ \E path \in GwPaths, header \in {<<>>} \cup {<<h>> : h \in GwHeaders},
          query \in {<<>>} \cup {<<q>> : q \in GwQueries} :
          LET req == [path |-> path, header |-> header, query |-> query]
          IN  /\ g_req' = req
              /\ g_resp' = Serve(g_state, req)
    /\ g_n' = g_n + 1
    /\ UNCHANGED <<g_pc, g_cfg, g_env, g_file, g_state>>
    /\ UNCHANGED notGw

NextGw == GwStart \/ GwRequest

\* no gateway under consideration
IdleGw ==
    /\ g_pc = "none"
    /\ g_cfg = FALSE
    /\ g_env = <<>>
    /\ g_file = <<>>
    /\ g_state = <<>>
    /\ g_n = 0
    /\ g_req = NoRequest
    /\ g_resp = NoResponse

--------------------------------------------------------------------------
(* Specifications *)

\* single-head calls of attention
AttnInit == InitAttn /\ IdleMha /\ IdleCodec /\ IdleStore /\ IdleRope /\ IdleDb /\ IdleGw

SpecAttn == AttnInit /\ [][NextAttn]_vars

\* calls of multi_head_attention
MhaInit == IdleAttn /\ InitMha /\ IdleCodec /\ IdleStore /\ IdleRope /\ IdleDb /\ IdleGw

SpecMha == MhaInit /\ [][NextMha]_vars

\* conversions of the half-precision codec
CodecInit == IdleAttn /\ IdleMha /\ InitCodec /\ IdleStore /\ IdleRope /\ IdleDb /\ IdleGw

SpecCodec == CodecInit /\ [][NextCodec]_vars

\* calls on a cache in memory
CacheInit == IdleAttn /\ IdleMha /\ IdleCodec /\ InitCache /\ IdleRope /\ IdleDb /\ IdleGw

SpecCache == CacheInit /\ [][NextCache]_vars

\* calls on a cache, saves and loads of its snapshot
PersistInit == IdleAttn /\ IdleMha /\ IdleCodec /\ InitPersist /\ IdleRope /\ IdleDb /\ IdleGw

SpecPersist == PersistInit /\ [][NextPersist]_vars

\* a rope table and one call on it
RopeInit == IdleAttn /\ IdleMha /\ IdleCodec /\ IdleStore /\ InitRope /\ IdleDb /\ IdleGw

SpecRope == RopeInit /\ [][NextRope]_vars

\* a new platform database and the calls on it
DbInit == IdleAttn /\ IdleMha /\ IdleCodec /\ IdleStore /\ IdleRope /\ InitDb /\ IdleGw

SpecDb == DbInit /\ [][NextDb]_vars

\* a gateway started and the requests it serves
GwInit == IdleAttn /\ IdleMha /\ IdleCodec /\ IdleStore /\ IdleRope /\ IdleDb /\ InitGw

SpecGw == GwInit /\ [][NextGw]_vars

\* calls of either entry point of the kernel
Init == AttnInit \/ MhaInit

Next == NextAttn \/ NextMha

Spec == Init /\ [][Next]_vars

--------------------------------------------------------------------------
(* The standard two-pass softmax attention, from the materialised score   *)
(* vector: the scores, their maximum, the exponentials, their sum, the    *)
(* weights, the weighted sum of the value vectors.                        *)

ScoreAt(q, kc, t, hd) == FMul(AttnDot(q, kc, t * hd, hd), AttnScale(hd))

ScoreVector(q, kc, n, hd) == [t \in 1..n |-> ScoreAt(q, kc, t - 1, hd)]

RECURSIVE MaxOf(_, _)
MaxOf(s, n) == IF n = 0 THEN NInf ELSE FMax(MaxOf(s, n - 1), s[n])

RECURSIVE SumOf(_, _)
SumOf(s, n) == IF n = 0 THEN 0 ELSE FAdd(SumOf(s, n - 1), s[n])

SoftmaxWeights(s, n) ==
    LET m == MaxOf(s, n)
        e == [t \in 1..n |-> FExp(FSub(s[t], m))]
        z == SumOf(e, n)
    IN  [t \in 1..n |-> FDiv(e[t], z)]

TwoPass(q, kc, vc, n, hd) ==
    LET w == SoftmaxWeights(ScoreVector(q, kc, n, hd), n)
    IN  [i \in 1..hd |-> SumOf([t \in 1..n |-> FMul(w[t], vc[(t - 1) * hd + i])], n)]

AllFinite(s) == \A i \in DOMAIN s : IsFinite(s[i])

\* the largest distance between two vectors of finite values, in units of 1/ONE
Within(x, y, tol) == \A i \in DOMAIN x : Abs(x[i] - y[i]) <= tol

\* the rounding error allowed after n positions, in units of 1/ONE: each
\* position rounds once when it rescales and once when it accumulates
RoundingTol(n) == 2 * n

\* the scores of the single-head call in progress
AttnScores == ScoreVector(a_q, a_k, a_n, a_hd)

AttnDone == a_pc = "done" /\ a_n >= 1

RECURSIVE Total(_, _)
Total(vec, n) == IF n = 0 THEN 0 ELSE Total(vec, n - 1) + vec[n]

SameValues == \A t \in 0..(a_n - 1) : Row(a_v, t, a_hd) = Row(a_v, 0, a_hd)

OneHot(vec) ==
    \E i \in DOMAIN vec : vec[i] = ONE /\ \A j \in DOMAIN vec : j # i => vec[j] = 0

DistinctOneHot ==
    /\ \A t \in 0..(a_n - 1) : OneHot(Row(a_v, t, a_hd))
    /\ \A t, u \in 0..(a_n - 1) : t # u => Row(a_v, t, a_hd) # Row(a_v, u, a_hd)

MinValue(i) ==
    CHOOSE x \in {a_v[t * a_hd + i] : t \in 0..(a_n - 1)} :
        \A y \in {a_v[t * a_hd + i] : t \in 0..(a_n - 1)} : x <= y

MaxValue(i) ==
    CHOOSE x \in {a_v[t * a_hd + i] : t \in 0..(a_n - 1)} :
        \A y \in {a_v[t * a_hd + i] : t \in 0..(a_n - 1)} : x >= y

--------------------------------------------------------------------------
(* C1 *)

--------------------------------------------------------------------------
(* C2 *)

--------------------------------------------------------------------------
(* C3 *)

\* C3: with seq_len == 0, attention and each head of multi_head_attention set
\* every element of the output to 0 and perform no floating-point division.
C3_EmptyIsZero ==
    /\ a_pc = "done" /\ a_n = 0 => a_out = Zeros(a_hd) /\ a_ndiv = 0
    /\ m_sched # "none" /\ m_n = 0 =>
          \A h \in Heads :
              m_pc[h] = "done" =>
                  /\ Slice(m_out, h * m_hd, m_hd) = Zeros(m_hd)
                  /\ m_ndiv[h] = 0

\* a call with seq_len == 0 and a non-zero query has returned
C3_Witness == a_pc = "done" /\ a_n = 0 /\ a_hd = 4 /\ a_q[1] # 0

--------------------------------------------------------------------------
(* C4 *)

\* C4 as stated: with seq_len == 1 the output equals the single value vector,
\* for every query and every key.
C4_SingleIsValue ==
    a_pc = "done" /\ a_n = 1 => a_out = Row(a_v, 0, a_hd)

\* C4 amended: with seq_len == 1 and a finite score the output equals the
\* single value vector.
C4_SingleIsValueWhenFinite ==
    a_pc = "done" /\ a_n = 1 /\ AllFinite(AttnScores) => a_out = Row(a_v, 0, a_hd)

\* one position with a finite non-zero score, and the value vector as output
C4_Witness ==
    /\ a_pc = "done"
    /\ a_n = 1
    /\ a_hd = 4
    /\ IsFinite(AttnScores[1])
    /\ AttnScores[1] # 0
    /\ a_out = Row(a_v, 0, a_hd)
    /\ a_out # a_q

--------------------------------------------------------------------------
(* C5 *)

AllHeadsDone == \A h \in Heads : m_pc[h] = "done"

\* C5: when n_heads % n_kv_heads == 0, head h uses key/value head
\* h / (n_heads / n_kv_heads), which is < n_kv_heads, and every key/value head
\* is used by exactly n_heads / n_kv_heads query heads.
C5_GqaMapping ==
    m_nkv > 0 /\ m_nh % m_nkv = 0 =>
        /\ \A h \in Heads :
              m_pc[h] \in {"loop", "done"} =>
                  /\ m_kvh[h] = h \div (m_nh \div m_nkv)
                  /\ m_kvh[h] < m_nkv
        /\ AllHeadsDone =>
              \A g \in 0..(m_nkv - 1) :
                  Cardinality({h \in Heads : m_kvh[h] = g}) = m_nh \div m_nkv

\* four query heads over two key/value heads, all computed
C5_Witness == m_nh = 4 /\ m_nkv = 2 /\ m_n = 2 /\ AllHeadsDone

--------------------------------------------------------------------------
(* C6 *)

\* what head h computes from its own query segment and the key/value arrays
HeadResult(h) ==
    AttentionStrided(Slice(m_q, h * m_hd, m_hd), m_k, m_v, m_n, m_hd,
                     m_nkv * m_hd, (h \div (m_nh \div m_nkv)) * m_hd,
                     (h \div (m_nh \div m_nkv)) * m_hd)

\* C6: in every order and interleaving of the head computations, the slice
\* output[h*head_dim .. (h+1)*head_dim) of a finished head holds what that head
\* computes, whatever the other heads are doing, and the final output is the
\* output of the for loop.
C6_AnyOrderSameOutput ==
    /\ \A h \in Heads :
          m_pc[h] = "done" => Slice(m_out, h * m_hd, m_hd) = HeadResult(h)
    /\ m_sched # "none" /\ AllHeadsDone =>
          m_out = MultiHeadAttention(Const(m_nh * m_hd, NaN), m_q, m_k, m_v,
                                     m_nh, m_nkv, m_n, m_hd)

\* out of the order of the loop: head 1 has finished while head 0 is in its loop
C6_Witness ==
    /\ m_sched = "any"
    /\ m_nh = 2
    /\ m_hd = 4
    /\ m_n = 2
    /\ m_pc[0] = "loop"
    /\ m_t[0] = 1
    /\ m_pc[1] = "done"

--------------------------------------------------------------------------
(* C7 *)

\* the non-interleaved array of key/value head h: for each position t the
\* elements [t*kv_dim + h*head_dim, t*kv_dim + (h+1)*head_dim)
DeInterleave(arr, h) ==
    [j \in 1..(m_n * m_hd) |->
        arr[((j - 1) \div m_hd) * (m_nkv * m_hd) + h * m_hd + ((j - 1) % m_hd) + 1]]

\* C7: when n_heads == n_kv_heads, the slice of head h equals the output of
\* attention on head h's query segment and the non-interleaved arrays of head h.
C7_DegenerateGqa ==
    m_nh > 0 /\ m_nh = m_nkv =>
        \A h \in Heads :
            m_pc[h] = "done" =>
                Slice(m_out, h * m_hd, m_hd) =
                    Attention(Slice(m_q, h * m_hd, m_hd), DeInterleave(m_k, h),
                              DeInterleave(m_v, h), m_n, m_hd)

\* two heads over two key/value heads, two positions, the second head finished
\* with an output that is not the first head's
C7_Witness ==
    /\ m_nh = 2
    /\ m_nkv = 2
    /\ m_n = 2
    /\ AllHeadsDone
    /\ Slice(m_out, m_hd, m_hd) # Slice(m_out, 0, m_hd)

--------------------------------------------------------------------------
(* C8 *)

HalfExponent(h) == (h \div 1024) % 32

HalfMantissa(h) == h % 1024

HalfSign(h) == h \div 32768

\* C8: for a half with exponent field 0 and mantissa m in 1..1023, fp16_to_fp32
\* returns the float of the same sign and of value m * 2^-24.
C8_SubnormalDecodeExact ==
    c_pc = "f16>f32" /\ HalfExponent(c_h) = 0 /\ HalfMantissa(c_h) # 0 =>
        /\ c_y.s = HalfSign(c_h)
        /\ c_y.e >= 103 /\ c_y.e <= 112
        /\ 8388608 + c_y.m = HalfMantissa(c_h) * 2 ^ (126 - c_y.e)

--------------------------------------------------------------------------
(* C9 *)

Rebiased(x) == x.e - 127 + 15

\* C9: for a float whose rebiased exponent e' is in 1..30, fp32_to_fp16 returns
\* sign | (e' << 10) | (mantissa >> 13), and fp16_to_fp32 of that is the input
\* with its low 13 bits cleared, of a magnitude not above the input's.
C9_NormalTruncates ==
    c_pc = "f32>f16>f32" /\ Rebiased(c_x) >= 1 /\ Rebiased(c_x) <= 30 =>
        /\ c_h = c_x.s * 32768 + Rebiased(c_x) * 1024 + (c_x.m \div 8192)
        /\ c_y = [s |-> c_x.s, e |-> c_x.e, m |-> c_x.m - (c_x.m % 8192)]
        /\ c_y.e = c_x.e /\ c_y.m <= c_x.m

\* a normal-range float whose dropped bits are above half a unit of the half
C9_Witness ==
    /\ c_pc = "f32>f16>f32"
    /\ Rebiased(c_x) = 30
    /\ c_x.m = 8388607
    /\ c_y.m = 8380416

--------------------------------------------------------------------------
(* C10 *)

\* C10: for a float with an all-ones exponent, fp32_to_fp16 returns
\* sign | 0x7C00 when the mantissa is zero and sign | 0x7E00 otherwise, a NaN.
C10_InfAndNaN ==
    c_pc = "f32>f16" /\ c_x.e = 255 =>
        /\ c_h = c_x.s * 32768 + (IF c_x.m = 0 THEN 31744 ELSE 32256)
        /\ c_x.m # 0 => HalfExponent(c_h) = 31 /\ HalfMantissa(c_h) # 0

\* a negative NaN whose payload is in the bits that the half drops
C10_Witness ==
    c_pc = "f32>f16" /\ c_x.e = 255 /\ c_x.m = 1 /\ c_x.s = 1 /\ c_h = 65024

--------------------------------------------------------------------------
(* C11 *)

\* C11: for a finite float, fp32_to_fp16 returns sign | 0x7C00 when the rebiased
\* exponent e' is >= 31 and the sign bit alone when e' < -10; in both cases the
\* sign bit of the result is the sign bit of the input.
C11_OverflowAndFlush ==
    c_pc = "f32>f16" /\ c_x.e # 255 =>
        /\ Rebiased(c_x) >= 31 => c_h = c_x.s * 32768 + 31744
        /\ Rebiased(c_x) < 0 - 10 => c_h = c_x.s * 32768
        /\ Rebiased(c_x) >= 31 \/ Rebiased(c_x) < 0 - 10 => HalfSign(c_h) = c_x.s

\* the smallest negative float that overflows has become minus infinity
C11_Witness ==
    c_pc = "f32>f16" /\ c_x.s = 1 /\ Rebiased(c_x) = 31 /\ c_x.m = 0 /\ c_h = 64512

--------------------------------------------------------------------------
(* C12 *)

(* Natural numbers of any size, as sequences of digits to the base 2^15,  *)
(* least significant digit first: the magnitudes of floats in units of    *)
(* 2^-149, which do not fit the integers of the model checker.            *)

BigBase == 2 ^ 15

RECURSIVE BigOf(_)
BigOf(n) == IF n = 0 THEN <<>> ELSE <<n % BigBase>> \o BigOf(n \div BigBase)

RECURSIVE BigAddC(_, _, _)
BigAddC(a, b, carry) ==
    IF a = <<>> /\ b = <<>> THEN BigOf(carry)
    ELSE LET da == IF a = <<>> THEN 0 ELSE Head(a)
             db == IF b = <<>> THEN 0 ELSE Head(b)
             ta == IF a = <<>> THEN <<>> ELSE Tail(a)
             tb == IF b = <<>> THEN <<>> ELSE Tail(b)
             s  == da + db + carry
         IN  <<s % BigBase>> \o BigAddC(ta, tb, s \div BigBase)

BigAdd(a, b) == BigAddC(a, b, 0)

\* a times c, for 0 <= c < 2^15
RECURSIVE BigMulC(_, _, _)
BigMulC(a, c, carry) ==
    IF a = <<>> THEN BigOf(carry)
    ELSE LET s == Head(a) * c + carry
         IN  <<s % BigBase>> \o BigMulC(Tail(a), c, s \div BigBase)

BigMul(a, c) == BigMulC(a, c, 0)

\* a times 2^n
RECURSIVE BigShl(_, _)
BigShl(a, n) ==
    IF n >= 15 THEN <<0>> \o BigShl(a, n - 15) ELSE BigMul(a, 2 ^ n)

RECURSIVE BigTrim(_)
BigTrim(a) ==
    IF a = <<>> THEN a
    ELSE IF a[Len(a)] = 0 THEN BigTrim(SubSeq(a, 1, Len(a) - 1)) ELSE a

\* a < b for two numbers of i digits, compared from the most significant
RECURSIVE BigLessFrom(_, _, _)
BigLessFrom(a, b, i) ==
    IF i = 0 THEN FALSE
    ELSE IF a[i] # b[i] THEN a[i] < b[i]
    ELSE BigLessFrom(a, b, i - 1)

BigLess(a, b) ==
    LET ta == BigTrim(a)
        tb == BigTrim(b)
    IN  IF Len(ta) # Len(tb) THEN Len(ta) < Len(tb)
        ELSE BigLessFrom(ta, tb, Len(ta))

\* the magnitude of a finite float in units of 2^-149
Magnitude(x) ==
    IF x.e = 0 THEN BigOf(x.m) ELSE BigShl(BigOf(8388608 + x.m), x.e - 1)

\* |x| <= 65504 = 0x477FE000
AtMost65504(x) == x.e < 142 \/ (x.e = 142 /\ x.m <= 8380416)

\* |x - back| < 0.01 * |x| + 0.001, both sides multiplied by 1000 * 2^149
WithinOnePercent(x, back) ==
    /\ back.e # 255
    /\ LET X == Magnitude(x)
           B == Magnitude(back)
           T == BigShl(BigOf(1), 149)
       IN  IF x.s = back.s
           THEN /\ BigLess(BigMul(X, 1000),
                           BigAdd(BigMul(B, 1000), BigAdd(BigMul(X, 10), T)))
                /\ BigLess(BigMul(B, 1000),
                           BigAdd(BigMul(X, 1000), BigAdd(BigMul(X, 10), T)))
           ELSE BigLess(BigMul(BigAdd(X, B), 1000), BigAdd(BigMul(X, 10), T))

\* C12: for every finite float x with |x| <= 65504, back =
\* fp16_to_fp32(fp32_to_fp16(x)) satisfies |x - back| < 0.01 * |x| + 0.001.
C12_RoundTripError ==
    c_pc = "f32>f16>f32" /\ c_x.e # 255 /\ AtMost65504(c_x) =>
        WithinOnePercent(c_x, c_y)

\* a float of the range that becomes a subnormal half has come back with half
\* its magnitude, and the largest float of the range without its low bits
C12_Witness ==
    /\ c_pc = "f32>f16>f32"
    /\ \/ c_x.e = 112 /\ c_x.m = 0 /\ c_y.e = 111 /\ c_y.m = 0
       \/ c_x.e = 142 /\ c_x.m = 6291457 /\ c_y.m = 6291456

--------------------------------------------------------------------------
(* C13 *)

\* what a read of a layer up to seq_len returns: the slice of a KvCache, the
\* output buffer of an Fp16KvCache
ReadOf(store, layer, seq_len) ==
    IF k_kind = "f32" THEN SliceOf(store, k_self, layer, seq_len)
    ELSE LoadHalves(store, k_self, layer, seq_len, OutputBefore(k_self))

\* what a written vector reads back as
ReadBack(v) ==
    IF k_kind = "f32" THEN v ELSE [i \in DOMAIN v |-> fp16_to_fp32(fp32_to_fp16(v[i]))]

ReadsBack(store, marks) ==
    \A sl \in Slots(k_self) :
        \A seq_len \in 1..k_self.max_seq_len :
            sl[2] < seq_len /\ marks[sl] # <<>> =>
                LET r == ReadOf(store, sl[1], seq_len)
                IN  /\ ~r.panic
                    /\ Slice(r.out, sl[2] * k_self.kv_dim, k_self.kv_dim)
                          = ReadBack(marks[sl])

\* C13: the vector v last written at an in-range (layer, pos) since the last
\* reset is what every read of that layer with pos < seq_len <= max_seq_len
\* returns at offsets [pos*kv_dim, (pos+1)*kv_dim): v itself for KvCache,
\* fp16_to_fp32(fp32_to_fp16(v[i])) for Fp16KvCache.
C13_ReadAfterWrite ==
    k_kind # "none" =>
        /\ ReadsBack(k_self.key_cache, k_mark.k)
        /\ ReadsBack(k_self.value_cache, k_mark.v)

\* load_keys of layer 1 has returned, at position 1, the key written there
\* without its low mantissa bits, after another key was written at (0, 0)
C13_Witness ==
    /\ k_kind = "fp16" /\ k_last = "load_keys" /\ k_status = "ok"
    /\ k_args = <<2, 2, 1, 1>>
    /\ k_mark.k[<<1, 1>>] = <<F32A>>
    /\ k_mark.k[<<0, 0>>] = <<F32B>>
    /\ k_mark.k[<<0, 1>>] = <<>>
    /\ k_out[2] = [s |-> 0, e |-> 127, m |-> 8192]

--------------------------------------------------------------------------
(* C14 *)

\* the cache that new returns for the arguments of the cache in use
NewCache ==
    IF k_kind = "f32" THEN KvCacheNew(k_args[1], k_args[2], k_args[3], k_args[4])
    ELSE Fp16KvCacheNew(k_args[1], k_args[2], k_args[3], k_args[4])

UsageOf(self) == IF k_kind = "f32" THEN KvMemoryUsage(self) ELSE Fp16MemoryUsage(self)

\* C14: after reset the cache is the cache that new returns for the same
\* dimensions: pos is 0, every key and value element reads as zero, and the
\* dimensions and the memory usage are those of the new cache.
C14_ResetIsNew ==
    k_last = "reset" =>
        /\ k_self = NewCache
        /\ k_self.pos = 0
        /\ \A layer \in Layers :
              /\ Slice(ReadOf(k_self.key_cache, layer, k_self.max_seq_len).out,
                       0, k_self.max_seq_len * k_self.kv_dim)
                    = Const(k_self.max_seq_len * k_self.kv_dim, PlusZero)
              /\ Slice(ReadOf(k_self.value_cache, layer, k_self.max_seq_len).out,
                       0, k_self.max_seq_len * k_self.kv_dim)
                    = Const(k_self.max_seq_len * k_self.kv_dim, PlusZero)
        /\ UsageOf(k_self) = UsageOf(NewCache)

\* a reset of a cache that held a non-zero key when it was saved the call before
C14_Witness ==
    /\ k_last = "reset" /\ k_ops = 3
    /\ f_saved.valid /\ f_saved.cache.key_cache[1] # 0
    /\ k_self.key_cache[1] = 0

--------------------------------------------------------------------------
(* C15 *)

\* a step is the call named
Called(name) == k_ops' = k_ops + 1 /\ k_last' = name

\* pos is changed by advance and reset only; advance adds 1 and leaves the rest
\* of the cache as it is; reset sets pos to 0
PosFrame ==
    /\ k_ops' = k_ops + 1 /\ k_self'.pos # k_self.pos => k_last' \in {"advance", "reset"}
    /\ Called("advance") => k_self' = [k_self EXCEPT !.pos = k_self.pos + 1]
    /\ Called("reset") => k_self'.pos = 0

\* C15 as stated: the frame of pos, and pos() of every cache is the number of
\* advance calls since its construction (by new or by load_from) or its last reset.
C15_PosIsAdvanceCount ==
    /\ [](k_kind # "none" => k_self.pos = k_adv)
    /\ [](k_last = "load_from" /\ l_res.state = "ok" => l_res.cache.pos = 0)
    /\ [][PosFrame]_vars

\* C15 amended: the frame of pos; pos() of a cache made by new is the number of
\* advance calls since new or the last reset; a cache returned by load_from
\* starts with the pos of the snapshot.
C15_PosCountsFromNew ==
    /\ [](k_kind # "none" => k_self.pos = k_adv)
    /\ [](k_last = "load_from" /\ l_res.state = "ok" =>
             f_saved.valid /\ l_res.cache.pos = f_saved.cache.pos)
    /\ [][PosFrame]_vars

\* a cache advanced once and saved has been loaded: the loaded cache is at pos 1
C15_Witness ==
    /\ k_last = "load_from" /\ l_res.state = "ok"
    /\ k_adv = 1 /\ k_self.pos = 1
    /\ l_res.cache.pos = 1

--------------------------------------------------------------------------
(* C16 *)

\* C16: in every state, the memory usage of an Fp16KvCache is half that of the
\* KvCache of the same dimensions, 2 * n_layers * max_seq_len * n_kv_heads *
\* head_dim * 2 bytes, and memory_usage returns it.
C16_HalfTheMemory ==
    /\ k_kind = "fp16" =>
          /\ 2 * Fp16MemoryUsage(k_self)
                = KvMemoryUsage(KvCacheNew(k_args[1], k_args[2], k_args[3], k_args[4]))
          /\ Fp16MemoryUsage(k_self) = 2 * k_args[1] * k_args[2] * k_args[3] * k_args[4] * 2
    /\ k_kind = "f32" =>
          KvMemoryUsage(k_self) = 2 * k_args[1] * k_args[2] * k_args[3] * k_args[4] * 4
    /\ k_last = "memory_usage" =>
          k_out = <<2 * k_args[1] * k_args[2] * k_args[3] * k_args[4]
                      * (IF k_kind = "f32" THEN 4 ELSE 2)>>

\* memory_usage of a half-precision cache of 2 x 2 x 1 x 1 has returned 16,
\* after a write and an advance
C16_Witness ==
    /\ k_kind = "fp16" /\ k_last = "memory_usage" /\ k_args = <<2, 2, 1, 1>>
    /\ k_out = <<16>>
    /\ k_self.pos = 1
    /\ k_mark.v[<<1, 0>>] # <<>>

--------------------------------------------------------------------------
(* C17 *)

--------------------------------------------------------------------------
(* C18 *)

\* C18: for a file of at least 4 bytes whose first 4 bytes are not "BCKV",
\* load_from returns an InvalidData error and no cache, having read the 4 bytes
\* of the magic and nothing more.
C18_MagicFirst ==
    /\ k_last = "load_from" /\ f_file.exists /\ Len(f_file.bytes) >= 4
    /\ SubSeq(f_file.bytes, 1, 4) # Magic
    => /\ l_res.state = "err"
       /\ l_res.kind = "InvalidData"
       /\ l_res.nread = 4
       /\ l_res.cache = NoCache

\* a file that is a snapshot but for its first byte has been refused
C18_Witness ==
    /\ k_last = "load_from"
    /\ Len(f_file.bytes) = 24 /\ f_file.bytes[1] = 88
    /\ l_res.kind = "InvalidData"

--------------------------------------------------------------------------
(* C19 *)

\* load_from fails on every proper prefix of the bytes of a complete save
PrefixesFail(self) ==
    LET bytes == SaveBytes(self)
    IN  \A n \in 0..(Len(bytes) - 1) : LoadFrom(FileOf(SubSeq(bytes, 1, n))).state = "err"

\* C19 as stated: load_from fails on every proper prefix of a complete save, and
\* after a save that failed or crashed load_from fails until a save completes.
C19_FailedSaveNeverLoads ==
    /\ k_kind = "fp16" => PrefixesFail(k_self)
    /\ k_last = "load_from" /\ s_res \in {"create failed", "write failed"} =>
          l_res.state = "err"

\* C19 amended: load_from fails on every proper prefix of a complete save, and
\* after a save that was interrupted after File::create had truncated the file
\* load_from fails until a save completes.
C19_InterruptedSaveNeverLoads ==
    /\ k_kind = "fp16" => PrefixesFail(k_self)
    /\ k_last = "load_from" /\ s_res = "write failed" => l_res.state = "err"

\* a save interrupted in the arrays, after the whole header: load_from has read
\* the header and failed at the end of the file
C19_Witness ==
    /\ k_last = "load_from" /\ s_res = "write failed"
    /\ Len(f_file.bytes) > 20
    /\ l_res.state = "err" /\ l_res.kind = "UnexpectedEof" /\ l_res.nread >= 20

--------------------------------------------------------------------------
(* C20 *)

\* save and load_from leave the cache as it is
PersistFrame ==
    /\ Called("save") => k_self' = k_self
    /\ Called("load_from") => k_self' = k_self

\* the arrays of a cache have the length that its dimensions give
Complete(cache) ==
    /\ Len(cache.key_cache) = cache.n_layers * cache.max_seq_len * cache.kv_dim
    /\ Len(cache.value_cache) = cache.n_layers * cache.max_seq_len * cache.kv_dim

\* C20: save, whether it succeeds or fails, leaves keys, values, dimensions and
\* pos unchanged; load_from leaves the existing cache unchanged and returns an
\* error and no cache, or a cache of which every field was read completely.
C20_PersistenceFrame ==
    /\ [][PersistFrame]_vars
    /\ [](l_res.state = "err" => l_res.cache = NoCache)
    /\ [](l_res.state = "ok" => Complete(l_res.cache))

\* a save of a cache that holds a key and is at pos 1 has failed at a write
C20_Witness ==
    /\ k_last = "save" /\ s_res = "write failed"
    /\ k_self.key_cache[1] # 0
    /\ k_self.pos = 1

--------------------------------------------------------------------------
(* C29 *)

KeyWrites == {"key_at_mut", "store_key"}

ValueWrites == {"value_at_mut", "store_value"}

\* the step is a write call that returned
Wrote(names) == k_ops' = k_ops + 1 /\ k_last' \in names /\ k_status' = "ok"

\* old and new differ at most in the elements off+1 .. off+n, which hold vec
OnlySlot(old, new, off, n, vec) ==
    /\ Len(new) = Len(old)
    /\ \A j \in 1..Len(old) :
          IF j > off /\ j <= off + n THEN new[j] = vec[j - off] ELSE new[j] = old[j]

\* the elements a write of data leaves in the store
AsStored(data) ==
    IF k_kind = "f32" THEN data ELSE [i \in DOMAIN data |-> fp32_to_fp16(data[i])]

\* the number of elements a write of data changes
WriteCount(data) ==
    IF k_kind = "f32" THEN k_self.kv_dim
    ELSE IF Len(data) < k_self.kv_dim THEN Len(data) ELSE k_self.kv_dim

WriteFrame ==
    LET layer == k_at'[1]
        pos   == k_at'[2]
        data  == k_at'[3]
        off   == (layer * k_self.max_seq_len + pos) * k_self.kv_dim
    IN  /\ Wrote(KeyWrites) /\ pos < k_self.max_seq_len =>
              /\ OnlySlot(k_self.key_cache, k_self'.key_cache, off, WriteCount(data),
                          AsStored(data))
              /\ k_self' = [k_self EXCEPT !.key_cache = k_self'.key_cache]
        /\ Wrote(ValueWrites) /\ pos < k_self.max_seq_len =>
              /\ OnlySlot(k_self.value_cache, k_self'.value_cache, off, WriteCount(data),
                          AsStored(data))
              /\ k_self' = [k_self EXCEPT !.value_cache = k_self'.value_cache]

\* C29: a write at an in-range (layer, pos) changes only elements of that slot
\* in the store it addresses: the other store, every other slot, the dimensions
\* and pos are unchanged; store_key / store_value write the first
\* min(len(data), kv_dim) elements of data and nothing after them.
C29_WriteFrame == [][WriteFrame]_vars

\* store_key has stored a vector of two elements in the slot (0, 0) of a cache
\* with kv_dim 1: the slot (0, 1) after it still holds zero
C29_Witness ==
    /\ k_kind = "fp16" /\ k_last = "store_key" /\ k_status = "ok"
    /\ k_args = <<2, 2, 1, 1>>
    /\ k_at = <<0, 0, <<F32B, F32A>>>>
    /\ k_self.key_cache = <<49664, 0, 0, 0>>

--------------------------------------------------------------------------
(* C30 *)

AccessorWrites == KeyWrites \cup ValueWrites

AccessorReads == {"keys", "values", "load_keys", "load_values"}

\* the store that the call named addresses
StoreOf(self, name) ==
    IF name \in KeyWrites \cup {"keys", "load_keys"} THEN self.key_cache
    ELSE self.value_cache

\* what a read returns for the stored elements vec
AsRead(vec) ==
    IF k_kind = "f32" THEN vec ELSE [i \in DOMAIN vec |-> fp16_to_fp32(vec[i])]

\* the step is an accessor call with these names, whether it returned or panicked
Accessed(names) == k_ops' = k_ops + 1 /\ k_last' \in names

NoBoundsCheck ==
    LET layer == k_at'[1]
        at    == k_at'[2]
        max   == k_self.max_seq_len
        dim   == k_self.kv_dim
        old   == StoreOf(k_self, k_last')
        new   == StoreOf(k_self', k_last')
    IN  /\ Called("advance") => k_status' = "ok" /\ k_self'.pos = k_self.pos + 1
        /\ Accessed(AccessorWrites) /\ at >= max =>
              LET end == (layer * max + at) * dim + dim
              IN  /\ k_status' = "panic" => end > Len(old)
                  /\ end <= Len(old) =>
                        /\ k_status' = "ok"
                        /\ OnlySlot(old, new, ((layer + 1) * max + (at - max)) * dim,
                                    WriteCount(k_at'[3]), AsStored(k_at'[3]))
        /\ Accessed(AccessorReads) /\ at > max =>
              LET end == layer * max * dim + at * dim
              IN  /\ k_status' = "panic" => end > Len(old)
                  /\ end <= Len(old) =>
                        /\ k_status' = "ok"
                        /\ \A pos \in max..(at - 1) :
                              Slice(k_out', pos * dim, dim)
                                 = AsRead(Slice(old, ((layer + 1) * max + (pos - max)) * dim,
                                                dim))

\* C30: advance is never refused, whatever pos is; a write at (layer, pos) with
\* pos >= max_seq_len, and a read with seq_len > max_seq_len, panics only when
\* the end of the addressed range is beyond the buffer, and otherwise succeeds
\* on the slot of (layer + 1, pos - max_seq_len).
C30_NoBoundsCheck == [][NoBoundsCheck]_vars

\* key_at_mut(0, 1) on a cache with max_seq_len 1 and two layers has written
\* the slot of layer 1, and the cache has been advanced past max_seq_len
C30_Witness ==
    /\ k_kind = "f32" /\ k_last = "key_at_mut" /\ k_status = "ok"
    /\ k_args = <<2, 1, 2, 1>>
    /\ k_at[1] = 0 /\ k_at[2] = 1
    /\ k_self.key_cache[3] # PlusZero /\ k_self.key_cache[1] = PlusZero
    /\ k_self.pos = 2

--------------------------------------------------------------------------
(* C26 *)

\* a KvCache of two layers with the key/value dimensions of the call, long
\* enough for seq_len positions
CacheFor(max) == KvCacheNew(2, max, m_nkv, m_hd)

\* a vector of kv_dim elements that are all different
Numbered(kv_dim) == [j \in 1..kv_dim |-> j]

\* index (from 0) idx of keys(layer, seq_len), read after a vector was written
\* at (layer, t), is element e (from 0) of that vector
ReadsElement(idx, layer, t, e) ==
    \A max \in {m_n, m_n + 1} :
        LET c == CacheFor(max)
            w == SliceAtMut(c.key_cache, c, layer, t, Numbered(c.kv_dim))
            r == SliceOf(w.arr, c, layer, m_n)
        IN  /\ ~w.panic /\ ~r.panic
            /\ Len(r.out) = m_n * c.kv_dim
            /\ idx < Len(r.out)
            /\ r.out[idx + 1] = Numbered(c.kv_dim)[e + 1]

\* C26: with n_heads a multiple of n_kv_heads, the indices that head h reads at
\* position t are t*kv_dim + g*head_dim + i with g < n_kv_heads and i < head_dim;
\* each is below seq_len*kv_dim, within the key and value arrays, and is element
\* g*head_dim + i of the vector written into a cache at (layer, t), as read from
\* the slice keys(layer, seq_len); no head reads out of bounds.
C26_KvIndexInBounds ==
    m_sched # "none" /\ m_nkv # 0 /\ m_nh % m_nkv = 0 =>
        \A h \in Heads :
            /\ m_pc[h] # "panic"
            /\ m_pc[h] = "loop" /\ m_t[h] < m_n =>
                  LET t      == m_t[h]
                      g      == m_kvh[h]
                      kv_dim == m_nkv * m_hd
                      first  == t * KvStride(m_nkv, m_hd) + KvBase(g, m_hd)
                  IN  /\ g < m_nkv
                      /\ MhaReadEnd(h) <= Len(m_k) /\ MhaReadEnd(h) <= Len(m_v)
                      /\ \A i \in 0..(m_hd - 1) :
                            /\ first + i = t * kv_dim + g * m_hd + i
                            /\ first + i < m_n * kv_dim
                            /\ \A layer \in {0, 1} :
                                  ReadsElement(first + i, layer, t, g * m_hd + i)

\* a head of the second key/value head of four query heads over two is at the
\* second position
C26_Witness ==
    /\ m_nh = 4 /\ m_nkv = 2 /\ m_n = 2
    /\ \E h \in Heads : m_pc[h] = "loop" /\ m_t[h] = 1 /\ m_kvh[h] = 1

--------------------------------------------------------------------------
(* C25 *)

\* x <= 0 on floats: false of NaN
NonPositive(x) == ~IsNaN(x) /\ x <= 0

\* the score of position t in the single-head call, as line 44 computes it
AttnScoreAt(t) == FMul(AttnDot(a_q, a_k, t * a_hd, a_hd), a_scale)

\* the score of position t for head h of the multi-head call
HeadScoreAt(h, t) ==
    FMul(StridedDot(Slice(m_q, QOffset(h, m_hd), m_hd), m_k,
                    t * KvStride(m_nkv, m_hd) + KvBase(m_kvh[h], m_hd), m_hd),
         m_scale[h])

\* the maximum of score(0) .. score(n - 1), -infinity of none
RECURSIVE MaxScore(_, _)
MaxScore(score(_), n) == IF n = 0 THEN NInf ELSE FMax(MaxScore(score, n - 1), score(n - 1))

\* running_max is the maximum of the scores processed, and the two exponent
\* arguments of the iteration about to run are <= 0
LoopInvariant(rmax, score(_), t, mayStep, concerned(_)) ==
    /\ rmax = MaxScore(score, t)
    /\ mayStep /\ concerned(t) =>
          LET new_max == FMax(rmax, score(t))
          IN  /\ NonPositive(FSub(rmax, new_max))
              /\ NonPositive(FSub(score(t), new_max))

AttnInLoop == a_pc = "loop"

HeadInLoop(h) == m_sched # "none" /\ m_pc[h] = "loop"

\* head h can run the iteration of position m_t[h]
HeadMayStep(h) == m_t[h] < m_n /\ MhaReadEnd(h) <= Len(m_k)

Always(t) == TRUE

\* score(0) .. score(t) of the single-head call are all finite
AttnFiniteTo(t) == \A u \in 0..t : IsFinite(AttnScoreAt(u))

RunningMaxGrows ==
    /\ AttnInLoop /\ a_pc' = "loop" => a_rmax' >= a_rmax
    /\ m_sched # "none" =>
          \A h \in Heads : m_pc[h] = "loop" /\ m_pc'[h] = "loop" => m_rmax'[h] >= m_rmax[h]

\* C25 as stated: in attention and attention_strided running_max is the maximum
\* of the scores processed and never decreases, and at every step both
\* exponent arguments are <= 0.
C25_ExponentsNonPositive ==
    /\ [](AttnInLoop => LoopInvariant(a_rmax, AttnScoreAt, a_t, a_t < a_n, Always))
    /\ [](\A h \in Heads : HeadInLoop(h) =>
             LoopInvariant(m_rmax[h], LAMBDA t : HeadScoreAt(h, t), m_t[h],
                           HeadMayStep(h), Always))
    /\ [][RunningMaxGrows]_vars

\* C25 amended: the same, the exponent arguments being <= 0 at every step up
\* to which all scores are finite.
C25_ExponentsNonPositiveWhenFinite ==
    /\ [](AttnInLoop => LoopInvariant(a_rmax, AttnScoreAt, a_t, a_t < a_n, AttnFiniteTo))
    /\ [](\A h \in Heads : HeadInLoop(h) =>
             LoopInvariant(m_rmax[h], LAMBDA t : HeadScoreAt(h, t), m_t[h],
                           HeadMayStep(h), Always))
    /\ [][RunningMaxGrows]_vars

\* the single-head loop is at its third position, the running maximum is the
\* score of the first, above the second and the third
C25_Witness ==
    /\ a_pc = "loop" /\ a_n = 3 /\ a_t = 2
    /\ IsFinite(a_rmax) /\ a_rmax = AttnScoreAt(0)
    /\ AttnScoreAt(1) < a_rmax /\ AttnScoreAt(2) < a_rmax
    /\ AttnFiniteTo(2)

--------------------------------------------------------------------------
(* C28 *)

\* C28: for every half h that is not a NaN, fp32_to_fp16(fp16_to_fp32(h)) = h.
C28_DecodeEncodeIdentity ==
    c_pc = "f16>f32>f16" /\ ~(HalfExponent(c_h) = 31 /\ HalfMantissa(c_h) # 0) =>
        c_h2 = c_h

--------------------------------------------------------------------------
(* C21 *)

RopeCalled == r_pc \in {"call", "done", "panic"}

\* C21: with pos >= max_seq_len, apply returns without a panic and with every
\* element of the vector as it was, and apply_multi_head leaves every head
\* segment as it was, at every point of its loop and at its return.
C21_OutOfRangeIsNoOp ==
    RopeCalled /\ r_pos >= r_self.max_seq_len =>
        /\ r_pc # "panic"
        /\ r_vec = r_in

\* apply_multi_head has returned from a call on two heads at pos = max_seq_len
C21_Witness ==
    /\ r_fn = "apply_multi_head" /\ r_pc = "done"
    /\ r_nh = 2 /\ r_h = 2
    /\ r_self.max_seq_len >= 1 /\ r_pos = r_self.max_seq_len
    /\ r_vec = r_in

--------------------------------------------------------------------------
(* C22 *)

\* apply has returned from a call at position 0 of a table with a position 0
RopeAppliedAtZero ==
    r_fn = "apply" /\ r_pc \in {"done", "panic"} /\ r_pos = 0 /\ r_self.max_seq_len >= 1

\* every entry of the table for position 0 is cos = 1, sin = 0
ZeroEntriesAreUnit ==
    \A i \in 1..r_self.half_dim : r_self.cos_table[i] = ONE /\ r_self.sin_table[i] = 0

\* C22 as stated: for every table with max_seq_len >= 1, every rope_theta and
\* every vector, apply at position 0 returns the vector unchanged, the entries
\* for position 0 being cos = 1 and sin = 0.
C22_IdentityAtZero ==
    RopeAppliedAtZero => r_pc = "done" /\ ZeroEntriesAreUnit /\ r_vec = r_in

\* every frequency of the table is finite
RopeFreqsFinite ==
    \A i \in 0..((r_args[2] \div 2) - 1) : IsFinite(RopeFreq(r_args[3], i, r_args[2]))

\* C22 amended: the same for every rope_theta that gives finite frequencies and
\* every vector of finite components.
C22_IdentityAtZeroWhenFinite ==
    RopeAppliedAtZero /\ RopeFreqsFinite /\ AllFinite(r_in) =>
        r_pc = "done" /\ ZeroEntriesAreUnit /\ r_vec = r_in

\* apply at position 0 of a table of three positions, head_dim 4 and theta 4
\* has returned a vector of four finite components, not all zero
C22_Witness ==
    /\ RopeAppliedAtZero /\ r_pc = "done"
    /\ r_args = <<3, 4, 4 * ONE>>
    /\ AllFinite(r_in) /\ r_in[1] = 0 - 2 * ONE /\ r_in[4] = ONE
    /\ r_vec = r_in


--------------------------------------------------------------------------
(* C23 *)

\* the step is an accessor call whose layer or position is out of range: a
\* write at pos >= max_seq_len, or a read of more than max_seq_len positions
BreaksAddressing ==
    \/ /\ Accessed(AccessorWrites)
       /\ (k_at'[1] >= k_self.n_layers \/ k_at'[2] >= k_self.max_seq_len)
    \/ /\ Accessed(AccessorReads)
       /\ (k_at'[1] >= k_self.n_layers \/ k_at'[2] > k_self.max_seq_len)

StoppedBeforeActing ==
    BreaksAddressing => k_status' = "panic" /\ k_self' = k_self /\ k_out' = k_out

\* C23: a precondition violation is stopped by an assertion; for the cache
\* accessors, a call with layer >= n_layers or a position out of range fails
\* and neither changes the cache nor returns elements.
C23_ViolationsAreStopped == [][StoppedBeforeActing]_vars


--------------------------------------------------------------------------
(* C24 *)

DbCalled(name) == d_ops' = d_ops + 1 /\ d_last' = name

\* the pairing codes stored for slug
CodesOf(rows, slug) == {t.pairing_code : t \in {u \in rows : u.slug = slug}}

OneTimeUse ==
    DbCalled("validate_pairing") =>
       LET slug == d_args'[1]
       IN  /\ d_ret'.tenant # <<>> => CodesOf(d_rows', slug) = {<<>>}
           /\ slug \in d_used => d_ret' = DbOk(<<>>, <<>>)
           /\ d_ret'.tenant = <<>> => d_rows' = d_rows

\* C24: when validate_pairing(slug, code) returns a tenant, the code stored for
\* slug is cleared; from then on, until reset_pairing_code stores a new code
\* for that tenant, every validate_pairing for slug returns None; and a
\* validate_pairing that returns None leaves the table as it is.
C24_PairingCodeIsOneTimeUse == [][OneTimeUse]_vars


--------------------------------------------------------------------------
(* C27 *)

\* the gateway was started with require_pairing and has answered a request to
\* a protected route
ProtectedRequestServed ==
    g_pc = "serving" /\ g_cfg /\ g_n >= 1 /\ g_req.path \in PathsOf(ProtectedRoutes)

\* the request carries this code in the header X-Pairing-Code or in a
\* parameter code= of the query
CarriesCode(req, code) ==
    \/ req.header # <<>> /\ req.header[1].text = <<code>>
    \/ /\ req.query # <<>>
       /\ \E i \in 1..Len(req.query[1]) :
             /\ i = 1 \/ req.query[1][i - 1] = "&"
             /\ LET rest == SubSeq(req.query[1], i, Len(req.query[1]))
                    given == CodeEq \o code
                IN  /\ Len(rest) >= Len(given)
                    /\ SubSeq(rest, 1, Len(given)) = given
                    /\ Len(rest) = Len(given) \/ rest[Len(given) + 1] = "&"

\* the code that the gateway was given: the environment variable, else the
\* file without the white space around it
ExpectedCode ==
    IF g_env # <<>> THEN g_env ELSE IF g_file # <<>> THEN <<Trim(g_file[1])>> ELSE <<>>

\* C27: with require_pairing enabled, a request to a protected route reaches
\* its handler only if it carries the expected pairing code in the header
\* X-Pairing-Code or in a code= query parameter; every other request to a
\* protected route is answered 401 and no handler runs.
C27_ProtectedNeedsCode ==
    ProtectedRequestServed =>
        IF ExpectedCode # <<>> /\ CarriesCode(g_req, ExpectedCode[1])
        THEN TRUE
        ELSE g_resp = [handler |-> "none", unauthorized |-> TRUE]

==========================================================================
